---- MODULE Spec2Model ----
(***************************************************************************)
(* A model of the simulation core of the game: the inventory of            *)
(* src/src/components.rs and the per-tick systems of src/src/game.rs.      *)
(*                                                                         *)
(* Positions are f32 in the source.  Here a position is an integer number  *)
(* of 1/Scale units, so that fractional positions and f32::round are       *)
(* modelled and not assumed away.  Option<T> is modelled as a sequence of  *)
(* length 0 (None) or 1 (Some).                                            *)
(***************************************************************************)
EXTENDS Integers, Sequences, FiniteSets, TLC

VARIABLES
    world,                   \* the entity store: entity id -> its components
    next_id,                 \* the id the next spawned entity gets
    despawn_queue,           \* Ctx.despawn_queue
    player_pos,              \* Ctx.player_pos
    player_inventory,        \* Ctx.player_inventory
    particle_emitter_entity, \* Ctx.particle_emitter_entity
    log,                     \* what the systems did in the current tick, in order
    despawned,               \* every entity a flush has removed so far, with
                             \* the system that queued it first and the tick
    pc,                      \* the system update() runs next
    ticks,                   \* number of update() calls started
    order,                   \* the order in which a query visits entities
    supply,                  \* the items the caller of insert hands over, in order
    inserted,                \* number of insert calls that returned true so far
    lightmap,                \* the illumination buffer Lightmap.lights, per pixel
    lit,                     \* the lights build_lightmap has accumulated in this frame
    selection,               \* per slot, whether the last of on_select and
                             \* on_deselect that the item in it has received
                             \* from a call of the Inventory API is on_select
    hist,                    \* what the run of update() calls has been so far:
                             \* whether the player started clear of the walls
                             \* and has walked at normal speed only, and the
                             \* number of update() calls since the one that
                             \* spawned the last bullet, what the fire keys
                             \* of the last update() call were, and for every
                             \* projectile the ticks_left it was created with
                             \* and the number of updates that have moved it,
                             \* and the number of lever interactions
    depth_buffer,            \* DepthBuffer.buffer: the draw commands pushed and
                             \* not yet popped, in the order of the pushes
    canvas,                  \* the sprites drawn to the canvas in this frame,
                             \* in the order of the draw calls
    light_rects,             \* the rectangle centres build_lightmap has placed
                             \* the lights of this frame at
    last_call                \* the last inventory call and what it returned

vars == <<world, next_id, despawn_queue, player_pos, player_inventory,
          particle_emitter_entity, log, despawned, pc, ticks, order, supply,
          inserted, lightmap, lit, selection, hist, depth_buffer, canvas,
          light_rects, last_call>>

----------------------------------------------------------------------------
(* Bounds of the model *)

MaxTicks == 2
MaxEntities == 8
TorchTicksMax == 1

----------------------------------------------------------------------------
(* Option, numbers *)

None == <<>>
Some(x) == <<x>>
is_some(o) == o # <<>>
is_none(o) == o = <<>>
unwrap(o) == o[1]

Scale == 10

Fx(n) == n * Scale

Abs(n) == IF n < 0 THEN -n ELSE n

\* f32::round: to the nearest integer, halves away from zero
round(v) ==
    IF v >= 0 THEN (2 * v + Scale) \div (2 * Scale)
    ELSE -((2 * (-v) + Scale) \div (2 * Scale))

U16 == 65536

\* u16::wrapping_sub(1)
wrapping_sub1(n) == (n - 1) % U16

Min2(a, b) == IF a < b THEN a ELSE b
Max2(a, b) == IF a > b THEN a ELSE b

----------------------------------------------------------------------------
(* The log of one tick: the entities a system's query visits ("visit", system,
   entity), the start of an inner query of detect_collisions ("query",
   "test_all", E1), the pushes onto the despawn queue ("push", system, entity), the
   collision callbacks ("callback", slot of C1, E1, E2), the item callbacks
   ("item", callback, slot, is_active) and the writes of components ("write",
   component, entity, number of the system in the order of update) *)

Ev(ev, what, a, b) == [ev |-> ev, what |-> what, a |-> a, b |-> b]

Logged(s, ev, what, a, b) == [s EXCEPT !.log = Append(@, Ev(ev, what, a, b))]

----------------------------------------------------------------------------
(* Components *)

CH_NONE == 0
CH_NAV == 1
CH_HITBOX == 2

\* usize & usize on two-bit masks
BitAnd(a, b) ==
    (IF a % 2 = 1 /\ b % 2 = 1 THEN 1 ELSE 0)
    + (IF (a \div 2) % 2 = 1 /\ (b \div 2) % 2 = 1 THEN 2 ELSE 0)

BitOr(a, b) ==
    (IF a % 2 = 1 \/ b % 2 = 1 THEN 1 ELSE 0)
    + (IF (a \div 2) % 2 = 1 \/ (b \div 2) % 2 = 1 THEN 2 ELSE 0)

\* Pos: x and y in 1/Scale units; nan is TRUE when the f32 coordinates are NaN
Pos_new(x, y) == [x |-> x, y |-> y, nan |-> FALSE]

Pos_nan == [x |-> 0, y |-> 0, nan |-> TRUE]

\* pos.x += dx; pos.y += dy
Pos_add(pos, dx, dy) == IF pos.nan THEN pos ELSE [pos EXCEPT !.x = @ + dx, !.y = @ + dy]

Pos_zero == Pos_new(0, 0)

\* Collider::new: rect = (x_offset, y_offset, w, h)
Collider_new(rect, channels, collides_with, on_collide) ==
    [channels |-> channels,
     collides_with |-> collides_with,
     x_offset |-> rect[1],
     y_offset |-> rect[2],
     bounds |-> [x |-> 0, y |-> 0, w |-> rect[3], h |-> rect[4]],
     is_colliding |-> FALSE,
     left |-> FALSE,
     right |-> FALSE,
     top |-> FALSE,
     bottom |-> FALSE,
     on_collide |-> on_collide]

\* Collider::set_pos
set_pos(c, x, y) == [c EXCEPT !.bounds.x = x, !.bounds.y = y]

ColliderGroup(nav, hitbox) == [nav |-> nav, hitbox |-> hitbox]

\* Light: the colour is kept by name, the intensity (0. or 1. in the source) as 0 or 1
Light(radius, color, intensity) ==
    [radius |-> radius, color |-> color, intensity |-> intensity]

AnimatedSprite_new(ticks_per_frame, anim) ==
    [anim |-> anim, frame |-> 0, ticks |-> 0, ticks_per_frame |-> ticks_per_frame,
     flip_horizontal |-> FALSE]

\* AnimatedSprite::switch_anim
switch_anim(sp, anim, ticks_per_frame) ==
    IF sp.anim # anim
    THEN [sp EXCEPT !.anim = anim, !.frame = 0, !.ticks = 0,
                    !.ticks_per_frame = ticks_per_frame]
    ELSE sp

\* The component set of one entity; a component the entity lacks is None.
NoComponents ==
    [tags |-> {}, pos |-> None, sprite |-> None, cg |-> None, light |-> None,
     player |-> None, proj |-> None, emitter |-> None, interact |-> None]

----------------------------------------------------------------------------
(* The entity store *)

Entities(s) == DOMAIN s.world

\* World::spawn: a fresh entity with the given components
spawn(s, comps) ==
    [s EXCEPT !.world = [e \in DOMAIN s.world \cup {s.next_id} |->
                            IF e = s.next_id THEN comps ELSE s.world[e]],
              !.next_id = @ + 1]

\* World::despawn: the entity and all its components are gone
despawn(w, e) == [x \in DOMAIN w \ {e} |-> w[x]]

has_component(s, e, tag) == e \in DOMAIN s.world /\ tag \in s.world[e].tags

\* The state the operations work on: the world and the resource Ctx
State ==
    [world |-> world, next_id |-> next_id, despawn_queue |-> despawn_queue,
     player_pos |-> player_pos, player_inventory |-> player_inventory,
     particle_emitter_entity |-> particle_emitter_entity, log |-> <<>>,
     panic |-> FALSE]

\* world.run(|light: &mut Light, _: With<Player>| light.radius = radius): for
\* the light of every entity that has a Light and a Player component
set_player_light_radius(s, radius) ==
    [s EXCEPT !.world = [e \in DOMAIN s.world |->
        IF is_some(s.world[e].light) /\ is_some(s.world[e].player)
        THEN [s.world[e] EXCEPT !.light[1].radius = radius]
        ELSE s.world[e]]]

\* world.run(|light: &mut Light, _: With<Player>| ...) that sets every field
set_player_light(s, light) ==
    [s EXCEPT !.world = [e \in DOMAIN s.world |->
        IF is_some(s.world[e].light) /\ is_some(s.world[e].player)
        THEN [s.world[e] EXCEPT !.light = Some(light)]
        ELSE s.world[e]]]

----------------------------------------------------------------------------
(* Items *)

CmdNone == "None"
CmdRemove == "Remove"

Item(name, is_lit, ticks_max, ticks_left, uses_left) ==
    [name |-> name, is_lit |-> is_lit, ticks_max |-> ticks_max,
     ticks_left |-> ticks_left, uses_left |-> uses_left]

TestItem == Item("test_item", FALSE, 0, 0, 0)

PerfectlyGenericItem == Item("perfectly_generic_item", FALSE, 0, 0, 0)

\* Torch::new; ticks_max is 3600 in the source and TorchTicksMax here
Torch_new == Item("torch", FALSE, TorchTicksMax, TorchTicksMax, 0)

ChemlightUses == 5

\* Chemlight::new
Chemlight_new == Item("chemlight", FALSE, 0, 0, ChemlightUses)

\* (100. * ticks_left as f32 / ticks_max as f32) as u16 + 20
torch_radius(item) == (100 * item.ticks_left) \div item.ticks_max + 20

\* Torch::on_tick as it would be without the test of is_lit
Torch_on_tick_burns_unlit(item, s) ==
    IF item.ticks_left = 0
    THEN [item |-> item, cmd |-> CmdRemove,
          s |-> set_player_light_radius(s, 0)]
    ELSE [item |-> [item EXCEPT !.ticks_left = Max2(@ - 1, 0)],
          cmd |-> CmdNone,
          s |-> set_player_light_radius(s, torch_radius(item))]

Torch_on_tick(item, s) ==
    IF item.ticks_left = 0
    THEN [item |-> item, cmd |-> CmdRemove,
          s |-> set_player_light_radius(s, 0)]
    ELSE [item |-> IF item.is_lit
                   THEN [item EXCEPT !.ticks_left = Max2(@ - 1, 0)]
                   ELSE item,
          cmd |-> CmdNone,
          s |-> set_player_light_radius(s, torch_radius(item))]

Torch_on_use(item, s) ==
    [item |-> [item EXCEPT !.is_lit = TRUE],
     cmd |-> CmdNone,
     s |-> set_player_light(s, Light(150, "torch", 1))]

\* Chemlight::on_use as it would be if uses_left were tested before it is
\* decremented
Chemlight_on_use_tests_first(item, s) ==
    [item |-> [item EXCEPT !.uses_left = (@ - 1) % U16],
     cmd |-> IF item.uses_left = 0 THEN CmdRemove ELSE CmdNone,
     s |-> spawn(s, [NoComponents EXCEPT
                        !.pos = Some(s.player_pos),
                        !.sprite = Some(AnimatedSprite_new(0, "chemlight")),
                        !.light = Some(Light(120, "green", 1))])]

Chemlight_on_use(item, s) ==
    [item |-> [item EXCEPT !.uses_left = (@ - 1) % U16],
     cmd |-> IF (item.uses_left - 1) % U16 = 0 THEN CmdRemove ELSE CmdNone,
     s |-> spawn(s, [NoComponents EXCEPT
                        !.pos = Some(s.player_pos),
                        !.sprite = Some(AnimatedSprite_new(0, "chemlight")),
                        !.light = Some(Light(120, "green", 1))])]

\* Item::on_tick through the trait object
on_tick(item, is_active, s) ==
    IF item.name = "torch" THEN Torch_on_tick(item, s)
    ELSE [item |-> item, cmd |-> CmdNone, s |-> s]

\* Item::on_use through the trait object
on_use(item, s) ==
    IF item.name = "torch" THEN Torch_on_use(item, s)
    ELSE IF item.name = "chemlight" THEN Chemlight_on_use(item, s)
    ELSE [item |-> item, cmd |-> CmdNone, s |-> s]

\* Item::on_select and Item::on_deselect do nothing in all four items
on_select(item, s) == s

on_deselect(item, s) == s

----------------------------------------------------------------------------
(* Inventory *)

Slots == 0 .. 7

Inventory_new ==
    [items |-> [i \in Slots |-> None], num_items |-> 0, active_item_idx |-> 0]

Occupied(inv) == {i \in Slots : is_some(inv.items[i])}

FirstEmpty(inv) == CHOOSE i \in Slots :
    /\ is_none(inv.items[i])
    /\ \A j \in Slots : j < i => is_some(inv.items[j])

\* insert as it would be if a full inventory evicted its last slot
insert_evicts_when_full(s, item) ==
    LET inv == s.player_inventory IN
    IF \E i \in Slots : is_none(inv.items[i])
    THEN LET i == FirstEmpty(inv)
             s1 == [s EXCEPT !.player_inventory.items[i] = Some(item)]
             s2 == IF inv.num_items = 0
                   THEN on_select(item, Logged(s1, "item", "on_select", i, 0))
                   ELSE s1
         IN [s |-> [s2 EXCEPT !.player_inventory.num_items = @ + 1], ret |-> TRUE]
    ELSE [s |-> [s EXCEPT !.player_inventory.items[7] = Some(item)], ret |-> FALSE]

\* insert as it would be if on_select were called whenever no slot is occupied
insert_selects_when_empty(s, item) ==
    LET inv == s.player_inventory IN
    IF inv.num_items < 8
    THEN IF \E i \in Slots : is_none(inv.items[i])
         THEN LET i == FirstEmpty(inv)
                  s1 == [s EXCEPT !.player_inventory.items[i] = Some(item)]
                  s2 == IF Occupied(inv) = {}
                        THEN on_select(item, Logged(s1, "item", "on_select", i, 0))
                        ELSE s1
              IN [s |-> [s2 EXCEPT !.player_inventory.num_items = @ + 1],
                  ret |-> TRUE]
         ELSE [s |-> s, ret |-> FALSE]
    ELSE [s |-> s, ret |-> FALSE]

\* Inventory::insert; the result is the new state and the returned bool
insert(s, item) ==
    LET inv == s.player_inventory IN
    IF inv.num_items < 8
    THEN IF \E i \in Slots : is_none(inv.items[i])
         THEN LET i == FirstEmpty(inv)
                  s1 == [s EXCEPT !.player_inventory.items[i] = Some(item)]
                  s2 == IF inv.num_items = 0
                        THEN on_select(item, Logged(s1, "item", "on_select", i, 0))
                        ELSE s1
              IN [s |-> [s2 EXCEPT !.player_inventory.num_items = @ + 1],
                  ret |-> TRUE]
         ELSE [s |-> s, ret |-> FALSE]
    ELSE [s |-> s, ret |-> FALSE]

\* Inventory::active_item
active_item(inv) == inv.items[inv.active_item_idx]

RECURSIVE next_idx_right_loop(_, _, _)
next_idx_right_loop(inv, idx, i) ==
    IF i < 7
    THEN IF is_some(inv.items[idx]) /\ idx # inv.active_item_idx
         THEN Some(idx)
         ELSE next_idx_right_loop(inv, (idx + 1) % 8, i + 1)
    ELSE None

\* Inventory::next_idx_right
next_idx_right(inv) == next_idx_right_loop(inv, inv.active_item_idx, 0)

RECURSIVE next_idx_left_loop(_, _, _)
next_idx_left_loop(inv, idx, i) ==
    IF i < 7
    THEN IF is_some(inv.items[idx]) /\ idx # inv.active_item_idx
         THEN Some(idx)
         ELSE next_idx_left_loop(inv, wrapping_sub1(idx) % 8, i + 1)
    ELSE None

\* Inventory::next_idx_left
next_idx_left(inv) == next_idx_left_loop(inv, inv.active_item_idx, 0)

\* Inventory::get_left
get_left(inv) ==
    IF is_some(next_idx_left(inv)) THEN inv.items[unwrap(next_idx_left(inv))] ELSE None

\* Inventory::get_right
get_right(inv) ==
    IF is_some(next_idx_right(inv)) THEN inv.items[unwrap(next_idx_right(inv))] ELSE None

RECURSIVE tick_loop(_, _)
tick_loop(s, i) ==
    IF i >= 8 THEN s
    ELSE LET inv == s.player_inventory IN
         IF is_some(inv.items[i])
         THEN LET is_active == (i = inv.active_item_idx)
                  r == on_tick(unwrap(inv.items[i]), is_active,
                               Logged(s, "item", "on_tick", i, IF is_active THEN 1 ELSE 0))
                  s1 == [r.s EXCEPT !.player_inventory.items[i] =
                            IF r.cmd = CmdRemove THEN None ELSE Some(r.item)]
              IN tick_loop(s1, i + 1)
         ELSE tick_loop(s, i + 1)

\* tick as it would be with the loop starting at slot 1
tick_from_slot_one(s) == tick_loop(s, 1)

\* Inventory::tick
tick(s) == tick_loop(s, 0)

\* probe_right as it would be if the slot after the last one were slot 8
RECURSIVE probe_right_no_wrap(_, _, _)
probe_right_no_wrap(inv, idx, i) ==
    IF i < 8 /\ idx < 7 /\ is_none(inv.items[idx])
    THEN probe_right_no_wrap(inv, idx + 1, i + 1)
    ELSE idx

RECURSIVE probe_right(_, _, _)
probe_right(inv, idx, i) ==
    IF i < 8 /\ is_none(inv.items[idx])
    THEN probe_right(inv, (idx + 1) % 8, i + 1)
    ELSE idx

\* probe_left as it would be if it stepped to the next slot, as probe_right does
probe_left_steps_right(inv, idx, i) == probe_right(inv, idx, i)

RECURSIVE probe_left(_, _, _)
probe_left(inv, idx, i) ==
    IF i < 8 /\ is_none(inv.items[idx])
    THEN probe_left(inv, wrapping_sub1(idx) % 8, i + 1)
    ELSE idx

\* set_active_offset as it would be without the call of on_deselect
set_active_offset_no_deselect(s, offset) ==
    IF offset = 0 THEN s
    ELSE LET inv == s.player_inventory
             idx == IF offset > 0
                    THEN probe_right(inv, ((inv.active_item_idx + offset) % U16) % 8, 0)
                    ELSE probe_left(inv, ((inv.active_item_idx + 8 + offset) % U16) % 8, 0)
             s2 == [s EXCEPT !.player_inventory.active_item_idx = idx]
         IN IF is_some(inv.items[idx])
            THEN on_select(unwrap(inv.items[idx]), Logged(s2, "item", "on_select", idx, 0))
            ELSE s2

\* Inventory::set_active_offset
set_active_offset(s, offset) ==
    IF offset = 0 THEN s
    ELSE LET inv == s.player_inventory
             s1 == IF is_some(active_item(inv))
                   THEN on_deselect(unwrap(active_item(inv)),
                            Logged(s, "item", "on_deselect", inv.active_item_idx, 0))
                   ELSE s
             idx == IF offset > 0
                    THEN probe_right(inv, ((inv.active_item_idx + offset) % U16) % 8, 0)
                    ELSE probe_left(inv, ((inv.active_item_idx + 8 + offset) % U16) % 8, 0)
             s2 == [s1 EXCEPT !.player_inventory.active_item_idx = idx]
         IN IF is_some(inv.items[idx])
            THEN on_select(unwrap(inv.items[idx]), Logged(s2, "item", "on_select", idx, 0))
            ELSE s2

\* do_use as it would be if a Remove command were ignored
do_use_keeps_slot(s) ==
    LET inv == s.player_inventory
        a == inv.active_item_idx
    IN IF is_some(inv.items[a])
       THEN LET r == on_use(unwrap(inv.items[a]), Logged(s, "item", "on_use", a, 0))
            IN [r.s EXCEPT !.player_inventory.items[a] = Some(r.item)]
       ELSE s

\* do_use as it would be if a Remove command took the slot out of the array,
\* the later items moving down
do_use_drops_slot(s) ==
    LET inv == s.player_inventory
        a == inv.active_item_idx
        n == Cardinality(DOMAIN inv.items)
    IN IF a \in DOMAIN inv.items /\ is_some(inv.items[a])
       THEN LET r == on_use(unwrap(inv.items[a]), Logged(s, "item", "on_use", a, 0))
            IN IF r.cmd = CmdRemove
               THEN [r.s EXCEPT !.player_inventory.items =
                        [i \in 0 .. n - 2 |-> IF i < a THEN inv.items[i] ELSE inv.items[i + 1]]]
               ELSE [r.s EXCEPT !.player_inventory.items[a] = Some(r.item)]
       ELSE s

\* Inventory::do_use
do_use(s) ==
    LET inv == s.player_inventory
        a == inv.active_item_idx
    IN IF is_some(inv.items[a])
       THEN LET r == on_use(unwrap(inv.items[a]), Logged(s, "item", "on_use", a, 0))
            IN [r.s EXCEPT !.player_inventory.items[a] =
                   IF r.cmd = CmdRemove THEN None ELSE Some(r.item)]
       ELSE s

----------------------------------------------------------------------------
(* Spawning *)

\* Ctx.player_fire_cooldown and Ctx.bullet_lifetime, as main sets them
player_fire_cooldown == 20
bullet_lifetime == 60

\* the components spawn_player attaches to the player entity
PlayerComponents(pos) ==
    [NoComponents EXCEPT
        !.player = Some([fire_cooldown |-> player_fire_cooldown, can_fire_in |-> 0]),
        !.pos = Some(pos),
        !.sprite = Some(AnimatedSprite_new(15, "player_idle")),
        !.cg = Some(ColliderGroup(
                    Some(Collider_new(<<-13, 0, 26, 16>>, CH_NAV, CH_NAV, None)), None)),
        !.light = Some(Light(0, "white", 0))]

EmptyState ==
    [world |-> <<>>, next_id |-> 1, despawn_queue |-> <<>>,
     player_pos |-> Pos_zero, player_inventory |-> Inventory_new,
     particle_emitter_entity |-> None, log |-> <<>>, panic |-> FALSE]


TILE_SIZE == 32

\* tile_to_pos
tile_to_pos(x, y) ==
    Pos_new(Fx(x * TILE_SIZE) + Fx(TILE_SIZE) \div 2, Fx(y * TILE_SIZE) + Fx(TILE_SIZE) \div 2)

\* Ctx.bullet_speed, Ctx.player_speed and the speed with shift held, in pixels
bullet_speed == 4
player_speed == 3
shift_speed == 8

\* Ctx.enemy_speed = 1.2, in 1/Scale units
enemy_speed_fx == 12

\* ticks_left of a particle
particle_lifetime == 60

BitsNavHitbox == BitOr(CH_NAV, CH_HITBOX)

spawn_wall(s, pos) ==
    spawn(s, [NoComponents EXCEPT
        !.tags = {"Static", "Wall"},
        !.pos = Some(pos),
        !.sprite = Some(AnimatedSprite_new(0, "wall")),
        !.cg = Some(ColliderGroup(
                    Some(Collider_new(<<-16, -14, 32, 30>>, CH_NAV, BitsNavHitbox, None)),
                    None))])

spawn_floor(s, pos) ==
    spawn(s, [NoComponents EXCEPT
        !.tags = {"Floor"},
        !.pos = Some(pos),
        !.sprite = Some(AnimatedSprite_new(0, "floor"))])

spawn_torch(s, pos) ==
    spawn(s, [NoComponents EXCEPT
        !.pos = Some(pos),
        !.sprite = Some(AnimatedSprite_new(5, "torch")),
        !.light = Some(Light(120, "yellow", 1))])

spawn_lever(s, pos) ==
    spawn(s, [NoComponents EXCEPT
        !.pos = Some(pos),
        !.sprite = Some(AnimatedSprite_new(0, "lever")),
        !.interact = Some("lever")])

\* spawn_particle_emitter; init stores the new entity in Ctx
spawn_particle_emitter(s, pos) ==
    [spawn(s, [NoComponents EXCEPT
        !.tags = {"Prop"},
        !.pos = Some(pos),
        !.sprite = Some(AnimatedSprite_new(0, "particle_emitter")),
        !.emitter = Some([is_active |-> FALSE, particle_cooldown |-> 1,
                          particle_ticks_left |-> 0]),
        !.light = Some(Light(0, "gray", 1))])
     EXCEPT !.particle_emitter_entity = Some(s.next_id)]

spawn_enemy(s, pos) ==
    spawn(s, [NoComponents EXCEPT
        !.tags = {"Enemy"},
        !.pos = Some(pos),
        !.sprite = Some(AnimatedSprite_new(30, "enemy_walk")),
        !.cg = Some(ColliderGroup(
                    Some(Collider_new(<<-10, 6, 22, 10>>, CH_NAV, CH_NAV, None)),
                    Some(Collider_new(<<-16, -16, 32, 32>>, CH_HITBOX, CH_HITBOX,
                                      Some("enemy_hit"))))),
        !.light = Some(Light(30, "lightgray", 1))])

\* spawn_bullet: velocity_normal is the trajectory, each coordinate -1, 0 or 1.
\* The lookup of the animation "bullet" is taken to succeed, though main pushes
\* no animation of that name.
spawn_bullet(s, pos, velocity_normal) ==
    spawn(s, [NoComponents EXCEPT
        !.proj = Some([velocity |-> [x |-> Fx(velocity_normal.x * bullet_speed),
                                     y |-> Fx(velocity_normal.y * bullet_speed)],
                       ticks_left |-> bullet_lifetime]),
        !.pos = Some(pos),
        !.sprite = Some(AnimatedSprite_new(10, "bullet")),
        !.cg = Some(ColliderGroup(
                    Some(Collider_new(<<-6, -6, 12, 12>>, CH_NONE, BitsNavHitbox,
                                      Some("bullet_hit"))),
                    None)),
        !.light = Some(Light(20, "bullet", 1))])

\* the particle update_spawners spawns, with velocity v in 1/Scale units
spawn_particle(s, pos, v) ==
    spawn(s, [NoComponents EXCEPT
        !.pos = Some(pos),
        !.proj = Some([velocity |-> v, ticks_left |-> particle_lifetime]),
        !.light = Some(Light(2, "white", 1)),
        !.cg = Some(ColliderGroup(
                    Some(Collider_new(<<-2, -2, 4, 4>>, CH_NONE, BitsNavHitbox,
                                      Some("particle_hit"))),
                    None))])

\* spawn_player: the player entity and the four items of its inventory
spawn_player(s, pos) ==
    LET s0 == spawn(s, PlayerComponents(pos))
        r1 == insert(s0, TestItem)
        r2 == insert(r1.s, PerfectlyGenericItem)
        r3 == insert(r2.s, Torch_new)
        r4 == insert(r3.s, Chemlight_new)
    IN [r4.s EXCEPT !.panic = @ \/ ~(r1.ret /\ r2.ret /\ r3.ret /\ r4.ret)]

\* an entity with a position and a collider-group as the caller of World::spawn
\* chooses them: box = <<x_offset, y_offset, w, h>> and the masks of the one
\* collider it carries, in the navigation or in the hitbox slot
spawn_box(s, pos, static, slot, box, channels, collides_with, on_collide) ==
    LET c == Some(Collider_new(box, channels, collides_with, on_collide)) IN
    spawn(s, [NoComponents EXCEPT
        !.tags = IF static THEN {"Static"} ELSE {},
        !.pos = Some(pos),
        !.cg = Some(IF slot = "nav" THEN ColliderGroup(c, None)
                    ELSE ColliderGroup(None, c))])

\* an entity that carries a navigation collider and a hitbox with the same box
\* and the same masks, each with a callback
spawn_twin(s, pos, box, channels, collides_with) ==
    LET c == Some(Collider_new(box, channels, collides_with, Some("noop"))) IN
    spawn(s, [NoComponents EXCEPT !.pos = Some(pos), !.cg = Some(ColliderGroup(c, c))])

----------------------------------------------------------------------------
(* Queries *)

RECURSIVE Sorted(_, _)
Sorted(S, ord) ==
    IF S = {} THEN <<>>
    ELSE LET e == IF ord = "asc" THEN CHOOSE x \in S : \A y \in S : x <= y
                  ELSE CHOOSE x \in S : \A y \in S : x >= y
         IN <<e>> \o Sorted(S \ {e}, ord)

\* the entities a query for the components in kinds visits, in visiting order
Query(s, ord, kinds) ==
    Sorted({e \in DOMAIN s.world :
               \A k \in kinds :
                   CASE k = "pos" -> is_some(s.world[e].pos)
                     [] k = "sprite" -> is_some(s.world[e].sprite)
                     [] k = "cg" -> is_some(s.world[e].cg)
                     [] k = "light" -> is_some(s.world[e].light)
                     [] k = "player" -> is_some(s.world[e].player)
                     [] k = "proj" -> is_some(s.world[e].proj)
                     [] k = "emitter" -> is_some(s.world[e].emitter)
                     [] k = "interact" -> is_some(s.world[e].interact)
                     [] OTHER -> k \in s.world[e].tags}, ord)

push_despawn(s, system, e) ==
    Logged([s EXCEPT !.despawn_queue = Append(@, e)], "push", system, e, 0)

----------------------------------------------------------------------------
(* update_spawners *)

\* the body of the closure for emitter entity e; rnd = the two velocities drawn
spawner_step(s, e, rnd) ==
    LET em == unwrap(s.world[e].emitter)
        pos == unwrap(s.world[e].pos)
        s0 == Logged(s, "visit", "update_spawners", e, 0)
    IN IF em.is_active
       THEN IF em.particle_ticks_left = 0
            THEN [spawn_particle(spawn_particle(s0, pos, rnd[1]), pos, rnd[2])
                  EXCEPT !.world[e].emitter[1].particle_ticks_left = em.particle_cooldown]
            ELSE [s0 EXCEPT !.world[e].emitter[1].particle_ticks_left = @ - 1]
       ELSE s0

RECURSIVE spawners_loop(_, _, _)
spawners_loop(s, es, rnd) ==
    IF es = <<>> \/ s.panic THEN s
    ELSE spawners_loop(spawner_step(s, Head(es), rnd), Tail(es), rnd)

update_spawners(s, ord, rnd) == spawners_loop(s, Query(s, ord, {"emitter", "pos"}), rnd)

----------------------------------------------------------------------------
(* update_player *)

NoInput ==
    [up |-> FALSE, down |-> FALSE, left |-> FALSE, right |-> FALSE, shift |-> FALSE,
     fire_up |-> FALSE, fire_down |-> FALSE, fire_left |-> FALSE, fire_right |-> FALSE,
     interact |-> FALSE, q |-> FALSE, e |-> FALSE, use_item |-> FALSE]

\* trajectory.normalized() * 30. in 1/Scale units: 30 along an axis and
\* 30 / sqrt(2) = 21.2 along a diagonal
normalized30(c, other) == IF other = 0 THEN c * 300 ELSE c * 212

\* the closure init hands to spawn_lever
\* the lever's callback as it would be if it left the light of the emitter on
lever_on_interact_leaves_light(s, me) ==
    IF is_none(s.world[me].sprite) \/ is_none(s.particle_emitter_entity)
    THEN [s EXCEPT !.panic = TRUE]
    ELSE LET pe == unwrap(s.particle_emitter_entity) IN
         IF pe \notin DOMAIN s.world
            \/ is_none(s.world[pe].emitter) \/ is_none(s.world[pe].light)
         THEN [s EXCEPT !.panic = TRUE]
         ELSE LET active == ~unwrap(s.world[pe].emitter).is_active IN
              [s EXCEPT !.world[me].sprite[1].flip_horizontal = ~@,
                        !.world[pe].emitter[1].is_active = active,
                        !.world[pe].light[1].radius = 60]

lever_on_interact(s, me) ==
    IF is_none(s.world[me].sprite) \/ is_none(s.particle_emitter_entity)
    THEN [s EXCEPT !.panic = TRUE]
    ELSE LET pe == unwrap(s.particle_emitter_entity) IN
         IF pe \notin DOMAIN s.world
            \/ is_none(s.world[pe].emitter) \/ is_none(s.world[pe].light)
         THEN [s EXCEPT !.panic = TRUE]
         ELSE LET active == ~unwrap(s.world[pe].emitter).is_active IN
              [s EXCEPT !.world[me].sprite[1].flip_horizontal = ~@,
                        !.world[pe].emitter[1].is_active = active,
                        !.world[pe].light[1].radius = IF active THEN 60 ELSE 0]

\* player_step as it would be without the test of the trajectory's magnitude
player_step_fires_nowhere(s, e, input) ==
    LET moving == input.up \/ input.down \/ input.left \/ input.right
        sp0 == unwrap(s.world[e].sprite)
        sp1 == IF moving THEN switch_anim(sp0, "player_walk", 5)
               ELSE switch_anim(sp0, "player_idle", 30)
        speed == Fx(IF input.shift THEN shift_speed ELSE player_speed)
        cg == unwrap(s.world[e].cg)
    IN IF is_none(cg.nav) THEN [s EXCEPT !.panic = TRUE]
       ELSE
       LET collider == unwrap(cg.nav)
           p0 == unwrap(s.world[e].pos)
           p1 == IF input.up /\ ~collider.top THEN Pos_add(p0, 0, -speed) ELSE p0
           p2 == IF input.down /\ ~collider.bottom THEN Pos_add(p1, 0, speed) ELSE p1
           p3 == IF input.left /\ ~collider.left THEN Pos_add(p2, -speed, 0) ELSE p2
           pos == IF input.right /\ ~collider.right THEN Pos_add(p3, speed, 0) ELSE p3
           sp2 == IF input.left THEN [sp1 EXCEPT !.flip_horizontal = FALSE] ELSE sp1
           sprite == IF input.right THEN [sp2 EXCEPT !.flip_horizontal = TRUE] ELSE sp2
           pl0 == unwrap(s.world[e].player)
           can_fire_in == IF pl0.can_fire_in > 0 THEN pl0.can_fire_in - 1 ELSE 0
           trajectory ==
               [x |-> (IF input.fire_right THEN 1 ELSE 0) - (IF input.fire_left THEN 1 ELSE 0),
                y |-> (IF input.fire_down THEN 1 ELSE 0) - (IF input.fire_up THEN 1 ELSE 0)]
           fires == can_fire_in = 0
           s1 == [Logged(Logged(s, "visit", "update_player", e, 0), "write", "pos", e, 2)
                  EXCEPT !.world[e].sprite = Some(sprite),
                         !.world[e].pos = Some(pos),
                         !.player_pos = pos,
                         !.world[e].player[1].can_fire_in =
                             IF fires THEN pl0.fire_cooldown ELSE can_fire_in]
           s2 == IF fires
                 THEN spawn_bullet(s1,
                          Pos_add(pos, normalized30(trajectory.x, trajectory.y),
                                       normalized30(trajectory.y, trajectory.x)),
                          trajectory)
                 ELSE s1
           s3 == IF input.q THEN set_active_offset(s2, -1) ELSE s2
           s4 == IF input.e THEN set_active_offset(s3, 1) ELSE s3
           s5 == IF input.use_item THEN do_use(s4) ELSE s4
       IN tick(s5)

\* the body of the first closure of update_player, for player entity e
player_step(s, e, input) ==
    LET moving == input.up \/ input.down \/ input.left \/ input.right
        sp0 == unwrap(s.world[e].sprite)
        sp1 == IF moving THEN switch_anim(sp0, "player_walk", 5)
               ELSE switch_anim(sp0, "player_idle", 30)
        speed == Fx(IF input.shift THEN shift_speed ELSE player_speed)
        cg == unwrap(s.world[e].cg)
    IN IF is_none(cg.nav) THEN [s EXCEPT !.panic = TRUE]
       ELSE
       LET collider == unwrap(cg.nav)
           p0 == unwrap(s.world[e].pos)
           p1 == IF input.up /\ ~collider.top THEN Pos_add(p0, 0, -speed) ELSE p0
           p2 == IF input.down /\ ~collider.bottom THEN Pos_add(p1, 0, speed) ELSE p1
           p3 == IF input.left /\ ~collider.left THEN Pos_add(p2, -speed, 0) ELSE p2
           pos == IF input.right /\ ~collider.right THEN Pos_add(p3, speed, 0) ELSE p3
           sp2 == IF input.left THEN [sp1 EXCEPT !.flip_horizontal = FALSE] ELSE sp1
           sprite == IF input.right THEN [sp2 EXCEPT !.flip_horizontal = TRUE] ELSE sp2
           pl0 == unwrap(s.world[e].player)
           can_fire_in == IF pl0.can_fire_in > 0 THEN pl0.can_fire_in - 1 ELSE 0
           trajectory ==
               [x |-> (IF input.fire_right THEN 1 ELSE 0) - (IF input.fire_left THEN 1 ELSE 0),
                y |-> (IF input.fire_down THEN 1 ELSE 0) - (IF input.fire_up THEN 1 ELSE 0)]
           fires == can_fire_in = 0 /\ (trajectory.x # 0 \/ trajectory.y # 0)
           s1 == [Logged(Logged(s, "visit", "update_player", e, 0), "write", "pos", e, 2)
                  EXCEPT !.world[e].sprite = Some(sprite),
                         !.world[e].pos = Some(pos),
                         !.player_pos = pos,
                         !.world[e].player[1].can_fire_in =
                             IF fires THEN pl0.fire_cooldown ELSE can_fire_in]
           s2 == IF fires
                 THEN spawn_bullet(s1,
                          Pos_add(pos, normalized30(trajectory.x, trajectory.y),
                                       normalized30(trajectory.y, trajectory.x)),
                          trajectory)
                 ELSE s1
           s3 == IF input.q THEN set_active_offset(s2, -1) ELSE s2
           s4 == IF input.e THEN set_active_offset(s3, 1) ELSE s3
           s5 == IF input.use_item THEN do_use(s4) ELSE s4
       IN tick(s5)

RECURSIVE player_loop(_, _, _)
player_loop(s, es, input) ==
    IF es = <<>> \/ s.panic THEN s
    ELSE player_loop(player_step(s, Head(es), input), Tail(es), input)

\* ctx.player_pos.distance(pos) < r, r in pixels; false when a coordinate is NaN
distance_lt(p, q, r) ==
    /\ ~p.nan /\ ~q.nan
    /\ (p.x - q.x) * (p.x - q.x) + (p.y - q.y) * (p.y - q.y) < Fx(r) * Fx(r)

\* the body of the second closure of update_player, for interactable entity e
interact_step(s, e, input) ==
    LET s0 == Logged(s, "visit", "update_player", e, 0) IN
    IF input.interact /\ distance_lt(s.player_pos, unwrap(s.world[e].pos), 32)
    THEN lever_on_interact(s0, e)
    ELSE s0

RECURSIVE interact_loop(_, _, _)
interact_loop(s, es, input) ==
    IF es = <<>> \/ s.panic THEN s
    ELSE interact_loop(interact_step(s, Head(es), input), Tail(es), input)

\* update_player as it would be if the inventory were ticked after the query
\* of the player, outside its closure
update_player_ticks_outside(s, ord, input) ==
    LET s1 == player_loop(s, Query(s, ord, {"player", "pos", "cg", "sprite"}), input)
        s2 == tick(s1)
    IN interact_loop(s2, Query(s2, ord, {"interact", "pos"}), input)

update_player(s, ord, input) ==
    LET s1 == player_loop(s, Query(s, ord, {"player", "pos", "cg", "sprite"}), input)
    IN interact_loop(s1, Query(s1, ord, {"interact", "pos"}), input)

----------------------------------------------------------------------------
(* update_enemies *)

\* f32::sqrt of a sum of squares in 1/Scale units, rounded down
isqrt(n, bound) == CHOOSE m \in 0 .. bound : m * m <= n /\ n < (m + 1) * (m + 1)

Sign(n) == IF n > 0 THEN 1 ELSE IF n < 0 THEN -1 ELSE 0

\* the position the first closure of update_enemies leaves in player_pos
enemies_player_pos(s, ord) ==
    LET ps == Query(s, ord, {"player", "pos"}) IN
    IF ps = <<>> THEN Pos_zero ELSE unwrap(s.world[ps[Len(ps)]].pos)

\* the body of the second closure, for enemy entity e
enemy_step(s, e, pp) ==
    LET cg == unwrap(s.world[e].cg)
        pos == unwrap(s.world[e].pos)
        s0 == Logged(Logged(s, "visit", "update_enemies", e, 0), "write", "pos", e, 3)
    IN IF is_none(cg.nav) THEN [s EXCEPT !.panic = TRUE]
       ELSE IF pos.nan \/ pp.nan \/ (pp.x = pos.x /\ pp.y = pos.y)
       THEN \* v is NaN after normalize: no comparison holds and pos becomes NaN
            [s0 EXCEPT !.world[e].pos = Some(Pos_nan)]
       ELSE
       LET collider == unwrap(cg.nav)
           dx == pp.x - pos.x
           dy == pp.y - pos.y
           mag == isqrt(dx * dx + dy * dy, Abs(dx) + Abs(dy))
           vx0 == Sign(dx) * ((enemy_speed_fx * Abs(dx)) \div mag)
           vy0 == Sign(dy) * ((enemy_speed_fx * Abs(dy)) \div mag)
           flip == IF vx0 > 0 THEN TRUE
                   ELSE IF vx0 < 0 THEN FALSE
                   ELSE unwrap(s.world[e].sprite).flip_horizontal
           vx == IF (vx0 > 0 /\ collider.right) \/ (vx0 < 0 /\ collider.left) THEN 0 ELSE vx0
           vy == IF (vy0 > 0 /\ collider.bottom) \/ (vy0 < 0 /\ collider.top) THEN 0 ELSE vy0
       IN [s0 EXCEPT !.world[e].sprite[1].flip_horizontal = flip,
                     !.world[e].pos = Some(Pos_add(pos, vx, vy))]

RECURSIVE enemies_loop(_, _, _)
enemies_loop(s, es, pp) ==
    IF es = <<>> \/ s.panic THEN s
    ELSE enemies_loop(enemy_step(s, Head(es), pp), Tail(es), pp)

update_enemies(s, ord) ==
    LET pp == enemies_player_pos(s, ord)
        s0 == IF Query(s, ord, {"player", "pos"}) = <<>> THEN s
              ELSE Logged(s, "visit", "update_enemies",
                          Query(s, ord, {"player", "pos"})[1], 0)
    IN enemies_loop(s0, Query(s, ord, {"Enemy", "pos", "cg", "sprite"}), pp)

----------------------------------------------------------------------------
(* update_projectiles *)

\* projectile_step as it would be if an expired projectile were despawned at once
projectile_step_despawns_now(s, e) ==
    LET pr == unwrap(s.world[e].proj)
        s0 == Logged(s, "visit", "update_projectiles", e, 0)
    IN IF pr.ticks_left = 0
       THEN [push_despawn(s0, "update_projectiles", e) EXCEPT !.world = despawn(@, e)]
       ELSE [Logged(Logged(s0, "write", "pos", e, 4), "write", "ticks_left", e, 4)
             EXCEPT !.world[e].pos[1] = Pos_add(@, pr.velocity.x, pr.velocity.y),
                    !.world[e].proj[1].ticks_left = @ - 1]

\* projectile_step as it would be if an expired projectile were queued and moved
projectile_step_moves_expired(s, e) ==
    LET pr == unwrap(s.world[e].proj)
        s0 == Logged(s, "visit", "update_projectiles", e, 0)
        s1 == IF pr.ticks_left = 0 THEN push_despawn(s0, "update_projectiles", e) ELSE s0
    IN [Logged(Logged(s1, "write", "pos", e, 4), "write", "ticks_left", e, 4)
        EXCEPT !.world[e].pos[1] = Pos_add(@, pr.velocity.x, pr.velocity.y),
               !.world[e].proj[1].ticks_left = Max2(@ - 1, 0)]

\* projectile_step as it would be if a projectile with one tick left were
\* queued, one move short
projectile_step_one_short(s, e) ==
    LET pr == unwrap(s.world[e].proj)
        s0 == Logged(s, "visit", "update_projectiles", e, 0)
    IN IF pr.ticks_left <= 1
       THEN push_despawn(s0, "update_projectiles", e)
       ELSE [Logged(Logged(s0, "write", "pos", e, 4), "write", "ticks_left", e, 4)
             EXCEPT !.world[e].pos[1] = Pos_add(@, pr.velocity.x, pr.velocity.y),
                    !.world[e].proj[1].ticks_left = @ - 1]

\* the body of the closure, for projectile entity e
projectile_step(s, e) ==
    LET pr == unwrap(s.world[e].proj)
        s0 == Logged(s, "visit", "update_projectiles", e, 0)
    IN IF pr.ticks_left = 0
       THEN push_despawn(s0, "update_projectiles", e)
       ELSE [Logged(Logged(s0, "write", "pos", e, 4), "write", "ticks_left", e, 4)
             EXCEPT !.world[e].pos[1] = Pos_add(@, pr.velocity.x, pr.velocity.y),
                    !.world[e].proj[1].ticks_left = @ - 1]

RECURSIVE projectiles_loop(_, _)
projectiles_loop(s, es) ==
    IF es = <<>> \/ s.panic THEN s
    ELSE projectiles_loop(projectile_step(s, Head(es)), Tail(es))

update_projectiles(s, ord) == projectiles_loop(s, Query(s, ord, {"proj", "pos"}))

----------------------------------------------------------------------------
(* fix_colliders *)

\* round_i32 as it would be if the coordinate were cast without being rounded
round_i32_truncates(pos, axis) ==
    IF pos.nan THEN 0
    ELSE IF pos[axis] >= 0 THEN pos[axis] \div Scale ELSE -((-pos[axis]) \div Scale)

\* pos.x.round() as i32: NaN casts to 0
round_i32(pos, axis) == IF pos.nan THEN 0 ELSE round(pos[axis])

fix_collider(c, pos) ==
    IF is_some(c)
    THEN Some(set_pos(unwrap(c), round_i32(pos, "x") + unwrap(c).x_offset,
                                 round_i32(pos, "y") + unwrap(c).y_offset))
    ELSE c

\* the body of the closure, for entity e
fix_step(s, e) ==
    LET cg == unwrap(s.world[e].cg)
        pos == unwrap(s.world[e].pos)
    IN [Logged(Logged(s, "visit", "fix_colliders", e, 0), "write", "bounds", e, 5)
        EXCEPT !.world[e].cg = Some(ColliderGroup(fix_collider(cg.nav, pos),
                                                  fix_collider(cg.hitbox, pos)))]

RECURSIVE fix_loop(_, _)
fix_loop(s, es) ==
    IF es = <<>> \/ s.panic THEN s
    ELSE fix_loop(fix_step(s, Head(es)), Tail(es))

fix_colliders(s, ord) == fix_loop(s, Query(s, ord, {"cg", "pos"}))

----------------------------------------------------------------------------
(* detect_collisions *)

\* sdl2 Rect::left, right, top, bottom
left(r) == r.x
right(r) == r.x + r.w
top(r) == r.y
bottom(r) == r.y + r.h

\* sdl2 Rect::has_intersection: the rectangles share at least one pixel
has_intersection(a, b) ==
    /\ Max2(left(a), left(b)) < Min2(right(a), right(b))
    /\ Max2(top(a), top(b)) < Min2(bottom(a), bottom(b))

\* the collision callbacks the spawn functions install, by name; "noop" is a
\* callback that does nothing
on_collide(s, cb, me, other) ==
    CASE cb = "enemy_hit" ->
            IF is_some(s.world[other].proj)
            THEN push_despawn(s, "detect_collisions", me)
            ELSE s
      [] cb = "bullet_hit" -> push_despawn(s, "detect_collisions", me)
      [] cb = "particle_hit" ->
            IF is_none(s.world[me].proj) THEN [s EXCEPT !.panic = TRUE]
            ELSE [Logged(s, "write", "velocity", me, 6)
                  EXCEPT !.world[me].proj[1].velocity = [x |-> 0, y |-> 0]]
      [] OTHER -> s

\* the collider in slot sl ("nav" or "hitbox") of entity e
collider_of(s, e, sl) == unwrap(unwrap(s.world[e].cg)[sl])

\* side_of as it would be if the horizontal branches set each other's flag
side_of_swaps_left_right(b1, b2) ==
    LET d_bottom == bottom(b2) - top(b1)
        d_top == bottom(b1) - top(b2)
        d_left == right(b1) - left(b2)
        d_right == right(b2) - left(b1)
    IN IF d_top < d_bottom /\ d_top < d_left /\ d_top < d_right THEN "bottom"
       ELSE IF d_bottom < d_top /\ d_bottom < d_left /\ d_bottom < d_right THEN "top"
       ELSE IF d_left < d_right /\ d_left < d_top /\ d_left < d_bottom THEN "left"
       ELSE IF d_right < d_left /\ d_right < d_top /\ d_right < d_bottom THEN "right"
       ELSE ""

\* the side the comparison chain of test selects for c1 against c2, "" if none
\* of the four depths is strictly smaller than the other three
side_of(b1, b2) ==
    LET d_bottom == bottom(b2) - top(b1)
        d_top == bottom(b1) - top(b2)
        d_left == right(b1) - left(b2)
        d_right == right(b2) - left(b1)
    IN IF d_top < d_bottom /\ d_top < d_left /\ d_top < d_right THEN "bottom"
       ELSE IF d_bottom < d_top /\ d_bottom < d_left /\ d_bottom < d_right THEN "top"
       ELSE IF d_left < d_right /\ d_left < d_top /\ d_left < d_bottom THEN "right"
       ELSE IF d_right < d_left /\ d_right < d_top /\ d_right < d_bottom THEN "left"
       ELSE ""

\* correction as it would be with "+ 1." in place of "- 1."
correction_overshoot(side, b1, b2) ==
    CASE side = "bottom" -> [x |-> 0, y |-> -Fx(bottom(b1) - top(b2) + 1)]
      [] side = "top" -> [x |-> 0, y |-> Fx(bottom(b2) - top(b1) + 1)]
      [] side = "right" -> [x |-> -Fx(right(b1) - left(b2) + 1), y |-> 0]
      [] side = "left" -> [x |-> Fx(right(b2) - left(b1) + 1), y |-> 0]

\* the change of pos1 in the branch of the selected side
correction(side, b1, b2) ==
    CASE side = "bottom" -> [x |-> 0, y |-> -Fx(bottom(b1) - top(b2) - 1)]
      [] side = "top" -> [x |-> 0, y |-> Fx(bottom(b2) - top(b1) - 1)]
      [] side = "right" -> [x |-> -Fx(right(b1) - left(b2) - 1), y |-> 0]
      [] side = "left" -> [x |-> Fx(right(b2) - left(b1) - 1), y |-> 0]

\* test as it would be without the test for the Static marker of E1
test_moves_static(s, e1, sl1, e2, c2, should_move) ==
    LET c1 == collider_of(s, e1, sl1) IN
    IF e1 # e2
       /\ BitAnd(c1.collides_with, c2.channels) # 0
       /\ has_intersection(c1.bounds, c2.bounds)
    THEN LET s1 == [Logged(s, "write", "flags", e1, 6)
                    EXCEPT !.world[e1].cg[1][sl1][1].is_colliding = TRUE]
             s2 == IF is_some(c1.on_collide)
                   THEN on_collide(Logged(s1, "callback", sl1, e1, e2),
                                   unwrap(c1.on_collide), e1, e2)
                   ELSE s1
             side == side_of(c1.bounds, c2.bounds)
             s3 == IF side = "" THEN s2
                   ELSE [Logged(s2, "write", "flags", e1, 6)
                         EXCEPT !.world[e1].cg[1][sl1][1][side] = TRUE]
         IN IF side # "" /\ should_move
            THEN LET d == correction(side, c1.bounds, c2.bounds) IN
                 [Logged(s3, "write", "pos", e1, 6)
                  EXCEPT !.world[e1].pos[1] = Pos_add(@, d.x, d.y)]
            ELSE s3
    ELSE s

\* test as it would be without the comparison of the two entities
test_against_self(s, e1, sl1, e2, c2, should_move) ==
    LET c1 == collider_of(s, e1, sl1) IN
    IF BitAnd(c1.collides_with, c2.channels) # 0
       /\ has_intersection(c1.bounds, c2.bounds)
    THEN LET s1 == [Logged(s, "write", "flags", e1, 6)
                    EXCEPT !.world[e1].cg[1][sl1][1].is_colliding = TRUE]
             s2 == IF is_some(c1.on_collide)
                   THEN on_collide(Logged(s1, "callback", sl1, e1, e2),
                                   unwrap(c1.on_collide), e1, e2)
                   ELSE s1
             side == side_of(c1.bounds, c2.bounds)
             s3 == IF side = "" THEN s2
                   ELSE [Logged(s2, "write", "flags", e1, 6)
                         EXCEPT !.world[e1].cg[1][sl1][1][side] = TRUE]
         IN IF side # "" /\ should_move /\ ~has_component(s3, e1, "Static")
            THEN LET d == correction(side, c1.bounds, c2.bounds) IN
                 [Logged(s3, "write", "pos", e1, 6)
                  EXCEPT !.world[e1].pos[1] = Pos_add(@, d.x, d.y)]
            ELSE s3
    ELSE s

\* test: collider sl1 of e1 against collider c2 of e2
test(s, e1, sl1, e2, c2, should_move) ==
    LET c1 == collider_of(s, e1, sl1) IN
    IF e1 # e2
       /\ BitAnd(c1.collides_with, c2.channels) # 0
       /\ has_intersection(c1.bounds, c2.bounds)
    THEN LET s1 == [Logged(s, "write", "flags", e1, 6)
                    EXCEPT !.world[e1].cg[1][sl1][1].is_colliding = TRUE]
             s2 == IF is_some(c1.on_collide)
                   THEN on_collide(Logged(s1, "callback", sl1, e1, e2),
                                   unwrap(c1.on_collide), e1, e2)
                   ELSE s1
             side == side_of(c1.bounds, c2.bounds)
             s3 == IF side = "" THEN s2
                   ELSE [Logged(s2, "write", "flags", e1, 6)
                         EXCEPT !.world[e1].cg[1][sl1][1][side] = TRUE]
         IN IF side # "" /\ should_move /\ ~has_component(s3, e1, "Static")
            THEN LET d == correction(side, c1.bounds, c2.bounds) IN
                 [Logged(s3, "write", "pos", e1, 6)
                  EXCEPT !.world[e1].pos[1] = Pos_add(@, d.x, d.y)]
            ELSE s3
    ELSE s

\* test_all_step as it would be if a hitbox C2 moved E1 too
test_all_step_hitbox_moves(s, e1, sl1, e2) ==
    LET cg == unwrap(s.world[e2].cg)
        s0 == Logged(s, "visit", "test_all", e2, 0)
        s1 == IF is_some(cg.nav) THEN test(s0, e1, sl1, e2, unwrap(cg.nav), TRUE) ELSE s0
    IN IF is_some(cg.hitbox) THEN test(s1, e1, sl1, e2, unwrap(cg.hitbox), TRUE) ELSE s1

\* test_all_step as it would be if no C2 moved E1
test_all_step_never_moves(s, e1, sl1, e2) ==
    LET cg == unwrap(s.world[e2].cg)
        s0 == Logged(s, "visit", "test_all", e2, 0)
        s1 == IF is_some(cg.nav) THEN test(s0, e1, sl1, e2, unwrap(cg.nav), FALSE) ELSE s0
    IN IF is_some(cg.hitbox) THEN test(s1, e1, sl1, e2, unwrap(cg.hitbox), FALSE) ELSE s1

\* the body of the closure of test_all, for entity e2
test_all_step(s, e1, sl1, e2) ==
    LET cg == unwrap(s.world[e2].cg)
        s0 == Logged(s, "visit", "test_all", e2, 0)
        s1 == IF is_some(cg.nav) THEN test(s0, e1, sl1, e2, unwrap(cg.nav), TRUE) ELSE s0
    IN IF is_some(cg.hitbox) THEN test(s1, e1, sl1, e2, unwrap(cg.hitbox), FALSE) ELSE s1

RECURSIVE test_all_loop(_, _, _, _)
test_all_loop(s, e1, sl1, es) ==
    IF es = <<>> \/ s.panic THEN s
    ELSE test_all_loop(test_all_step(s, e1, sl1, Head(es)), e1, sl1, Tail(es))

\* test_all as it would be if is_colliding were not reset
test_all_keeps_is_colliding(s, e1, sl1, ord) ==
    LET s0 == [Logged(s, "write", "flags", e1, 6)
               EXCEPT !.world[e1].cg[1][sl1][1].left = FALSE,
                      !.world[e1].cg[1][sl1][1].right = FALSE,
                      !.world[e1].cg[1][sl1][1].top = FALSE,
                      !.world[e1].cg[1][sl1][1].bottom = FALSE]
    IN test_all_loop(Logged(s0, "query", "test_all", e1, 0), e1, sl1,
                     Query(s0, ord, {"cg"}))

\* test_all: reset the flags of collider sl1 of e1, then test it against all
test_all(s, e1, sl1, ord) ==
    LET s0 == [Logged(s, "write", "flags", e1, 6)
               EXCEPT !.world[e1].cg[1][sl1][1].is_colliding = FALSE,
                      !.world[e1].cg[1][sl1][1].left = FALSE,
                      !.world[e1].cg[1][sl1][1].right = FALSE,
                      !.world[e1].cg[1][sl1][1].top = FALSE,
                      !.world[e1].cg[1][sl1][1].bottom = FALSE]
    IN test_all_loop(Logged(s0, "query", "test_all", e1, 0), e1, sl1,
                     Query(s0, ord, {"cg"}))

\* detect_step as it would be if only the navigation collider were tested
detect_step_nav_only(s, e1, ord) ==
    LET cg == unwrap(s.world[e1].cg)
        s0 == Logged(s, "visit", "detect_collisions", e1, 0)
    IN IF is_some(cg.nav) THEN test_all(s0, e1, "nav", ord) ELSE s0

\* the body of the outer closure, for entity e1
detect_step(s, e1, ord) ==
    LET cg == unwrap(s.world[e1].cg)
        s0 == Logged(s, "visit", "detect_collisions", e1, 0)
        s1 == IF is_some(cg.nav) THEN test_all(s0, e1, "nav", ord) ELSE s0
    IN IF is_some(cg.hitbox) /\ ~s1.panic THEN test_all(s1, e1, "hitbox", ord) ELSE s1

RECURSIVE detect_loop(_, _, _)
detect_loop(s, es, ord) ==
    IF es = <<>> \/ s.panic THEN s
    ELSE detect_loop(detect_step(s, Head(es), ord), Tail(es), ord)

detect_collisions(s, ord) == detect_loop(s, Query(s, ord, {"pos", "cg"}), ord)

----------------------------------------------------------------------------
(* the end of update: the despawn queue is flushed *)

RECURSIVE despawn_all(_, _)
despawn_all(w, q) ==
    IF q = <<>> THEN w ELSE despawn_all(despawn(w, Head(q)), Tail(q))

\* flush as it would be without despawn_queue.clear()
flush_keeps_queue(s) == [s EXCEPT !.world = despawn_all(s.world, s.despawn_queue)]

flush(s) == [s EXCEPT !.world = despawn_all(s.world, s.despawn_queue),
                      !.despawn_queue = <<>>]

----------------------------------------------------------------------------
(* build_lightmap: the illumination buffer of a frame, one colour channel *)

\* the width of the strip of screen pixels the buffer is followed on, at y = 0
ScreenW == 3

Pixels == 0 .. ScreenW - 1

\* a texture of one level all over: set_draw_color and clear
clear(level) == [p \in Pixels |-> level]

Dark == clear(0)

\* the ambient gray build_lightmap clears the buffer to
Ambient == 70

\* the red channel of the colours the lights are spawned with
red(color) ==
    CASE color = "white" -> 255
      [] color = "gray" -> 150
      [] color = "lightgray" -> 200
      [] color = "yellow" -> 255
      [] color = "bullet" -> 160
      [] OTHER -> 0

\* a float coordinate cast to i32: towards zero, NaN to 0
trunc_i32(pos, axis) ==
    IF pos.nan THEN 0
    ELSE IF pos[axis] >= 0 THEN pos[axis] \div Scale ELSE -((-pos[axis]) \div Scale)

window_w == 800
room_w == 2048

clamp(v, lo, hi) == IF v < lo THEN lo ELSE IF v > hi THEN hi ELSE v

\* Ctx::camera_pos, the x coordinate
camera_x(s) == clamp(trunc_i32(s.player_pos, "x") - window_w \div 2, 0, room_w - window_w \div 2)

window_h == 800
room_h == 2048

\* Ctx::camera_pos
camera_pos(s) ==
    [x |-> camera_x(s),
     y |-> clamp(trunc_i32(s.player_pos, "y") - window_h \div 2, 0, room_h - window_h \div 2)]

\* the centre of the rectangle build_lightmap stretches the light texture over,
\* for a light at pos: ((lp.x - camera_pos.0 as f32) as i32, and so for y)
light_rect(pos, cam) ==
    [x |-> trunc_i32(Pos_add(pos, -Fx(cam.x), 0), "x"),
     y |-> trunc_i32(Pos_add(pos, 0, -Fx(cam.y)), "y")]

\* BlendMode::Add and BlendMode::Mul of an opaque source onto dst
blend_add(dst, src) == Min2(255, dst + src)

\* blend_mul as it would be if the mask were copied with BlendMode::None
blend_mul_replaces(dst, src) == src

blend_mul(dst, src) == (src * dst) \div 255

\* (light.color.r as f32 * light.intensity) as u8
color_mod(light) == clamp(red(light.color) * light.intensity, 0, 255)

\* the texel of light.png that lands on pixel p when the texture is stretched
\* over Rect::from_center((x, y), 2 * radius, 2 * radius): brightest at the
\* centre, black at the rim and outside the rectangle
light_texel(p, x, radius) ==
    IF radius > 0 /\ x - radius <= p /\ p < x + radius
    THEN 255 - (255 * Abs(2 * (p - x) + 1)) \div (2 * radius)
    ELSE 0

\* the occlusion masks build_shadow_mask can leave: white, with the shadow
\* polygons of the walls in black
ShadowMasks == [Pixels -> {0, 255}]

\* the per-light texture: cleared to black, the light texture added to it with
\* the colour modulation if the light has a radius and an intensity, then the
\* mask multiplied onto it
per_light_tex(light, pos, cam_x, mask) ==
    LET x == trunc_i32(Pos_add(pos, -Fx(cam_x), 0), "x")
        drawn == [p \in Pixels |->
                    IF light.radius > 0 /\ light.intensity > 0
                    THEN blend_add(0, (light_texel(p, x, light.radius) * color_mod(light)) \div 255)
                    ELSE 0]
    IN [p \in Pixels |-> blend_mul(drawn[p], mask[p])]

\* the body of the closure of build_lightmap, for light entity e
light_step(s, lights, e, mask) ==
    LET tex == per_light_tex(unwrap(s.world[e].light), unwrap(s.world[e].pos),
                             camera_x(s), mask)
    IN [p \in Pixels |-> blend_add(lights[p], tex[p])]

\* the lights the query of build_lightmap still has to visit
lights_left(s, ord, done) ==
    LET q == Query(s, ord, {"light", "pos"}) IN SubSeq(q, Len(done) + 1, Len(q))

----------------------------------------------------------------------------
(* The inventory on its own: a player entity and calls of the Inventory API *)

Set(s) ==
    /\ world' = s.world
    /\ next_id' = s.next_id
    /\ despawn_queue' = s.despawn_queue
    /\ player_pos' = s.player_pos
    /\ player_inventory' = s.player_inventory
    /\ particle_emitter_entity' = s.particle_emitter_entity
    /\ log' = s.log

Call(op, arg, ret) == [op |-> op, arg |-> arg, ret |-> ret]

ItemOfKind(kind) ==
    CASE kind = "test_item" -> TestItem
      [] kind = "perfectly_generic_item" -> PerfectlyGenericItem
      [] kind = "torch" -> Torch_new
      [] kind = "chemlight" -> Chemlight_new

\* The items handed to insert, in the order of the calls: the four items of
\* spawn_player first, or other mixes of the item types
Supplies ==
    {<<"test_item", "perfectly_generic_item", "torch", "chemlight",
       "test_item", "test_item", "test_item", "test_item">>,
     <<"torch", "test_item", "chemlight", "test_item",
       "test_item", "test_item", "test_item", "test_item">>,
     <<"chemlight", "torch", "test_item", "test_item",
       "test_item", "test_item", "chemlight", "torch">>,
     <<"test_item", "test_item", "test_item", "test_item",
       "test_item", "test_item", "test_item", "torch">>,
     <<"chemlight", "test_item", "torch", "test_item",
       "test_item", "test_item", "test_item", "test_item">>,
     <<"test_item", "torch", "torch", "torch",
       "torch", "test_item", "test_item", "test_item">>}

Start(s) ==
    /\ world = s.world
    /\ next_id = s.next_id
    /\ despawn_queue = s.despawn_queue
    /\ player_pos = s.player_pos
    /\ player_inventory = s.player_inventory
    /\ particle_emitter_entity = s.particle_emitter_entity
    /\ log = s.log

\* the history of a run in which update() is not called
NoHistory ==
    [walking |-> TRUE, since_fire |-> player_fire_cooldown, fire |-> "none",
     left0 |-> <<>>, moves |-> <<>>, interactions |-> 0]

\* no item has received on_select
Unselected == [i \in Slots |-> FALSE]

\* sel after the callbacks that the log l of one call names, in their order
RECURSIVE AfterCallbacks(_, _)
AfterCallbacks(sel, l) ==
    IF l = <<>> THEN sel
    ELSE AfterCallbacks(
            IF Head(l).ev = "item" /\ Head(l).what \in {"on_select", "on_deselect"}
            THEN [sel EXCEPT ![Head(l).a] = (Head(l).what = "on_select")]
            ELSE sel,
            Tail(l))

\* sel after a call that has logged l and left the inventory inv: an item
\* that is gone takes its record with it
Tracked(sel, inv, l) ==
    [i \in Slots |-> is_some(inv.items[i]) /\ AfterCallbacks(sel, l)[i]]

\* the calls of the Inventory API are made with or without a record of the
\* select and deselect callbacks
InventoryCalls == {"inventory", "inventory_selection"}

\* selection after a call that has logged l and left the inventory inv
Recorded(inv, l) ==
    IF pc = "inventory_selection" THEN Tracked(selection, inv, l) ELSE selection

InitInv ==
    /\ Start(spawn(EmptyState, PlayerComponents(Pos_new(Fx(400), Fx(400)))))
    /\ despawned = {}
    /\ pc = "inventory"
    /\ ticks = 0
    /\ order = "asc"
    /\ supply \in Supplies
    /\ inserted = 0
    /\ lightmap = Dark
    /\ lit = <<>>
    /\ selection = Unselected
    /\ hist = NoHistory
    /\ depth_buffer = <<>>
    /\ canvas = <<>>
    /\ light_rects = <<>>
    /\ last_call = Call("new", 0, None)

\* the item of the next insert call
NextItem ==
    IF player_inventory.num_items < Len(supply)
    THEN ItemOfKind(supply[player_inventory.num_items + 1])
    ELSE TestItem

Insert ==
    /\ pc \in InventoryCalls
    /\ LET r == insert(State, NextItem) IN
        /\ Set(r.s)
        /\ last_call' = Call("insert", 0, Some(r.ret))
        /\ inserted' = IF r.ret THEN inserted + 1 ELSE inserted
    /\ selection' = Recorded(player_inventory', log')
    /\ UNCHANGED <<depth_buffer, canvas, light_rects, despawned, pc, ticks, order, supply, lightmap, lit, hist>>

Tick ==
    /\ pc \in InventoryCalls
    /\ Set(tick(State))
    /\ last_call' = Call("tick", 0, None)
    /\ selection' = Recorded(player_inventory', log')
    /\ UNCHANGED <<depth_buffer, canvas, light_rects, despawned, pc, ticks, order, supply, inserted, lightmap, lit, hist>>

DoUse ==
    /\ pc \in InventoryCalls
    /\ next_id <= MaxEntities
    /\ Set(do_use(State))
    /\ last_call' = Call("do_use", 0, None)
    /\ selection' = Recorded(player_inventory', log')
    /\ UNCHANGED <<depth_buffer, canvas, light_rects, despawned, pc, ticks, order, supply, inserted, lightmap, lit, hist>>

\* the offsets of update_player, -1 and 1, and larger ones up to a whole turn
\* and beyond
Offsets == {-9, -8, -1, 1, 2, 8}

SetActiveOffset(offset) ==
    /\ pc \in InventoryCalls
    /\ Set(set_active_offset(State, offset))
    /\ last_call' = Call("set_active_offset", offset, None)
    /\ selection' = Recorded(player_inventory', log')
    /\ UNCHANGED <<depth_buffer, canvas, light_rects, despawned, pc, ticks, order, supply, inserted, lightmap, lit, hist>>

GetLeft ==
    /\ pc \in InventoryCalls
    /\ last_call' = Call("get_left", 0, get_left(player_inventory))
    /\ log' = <<>>
    /\ UNCHANGED <<depth_buffer, canvas, light_rects, world, next_id, despawn_queue, player_pos, player_inventory,
                   particle_emitter_entity, despawned, pc, ticks, order, supply, inserted, lightmap, lit, selection, hist>>

GetRight ==
    /\ pc \in InventoryCalls
    /\ last_call' = Call("get_right", 0, get_right(player_inventory))
    /\ log' = <<>>
    /\ UNCHANGED <<depth_buffer, canvas, light_rects, world, next_id, despawn_queue, player_pos, player_inventory,
                   particle_emitter_entity, despawned, pc, ticks, order, supply, inserted, lightmap, lit, selection, hist>>

NextInv ==
    \/ Insert
    \/ Tick
    \/ DoUse
    \/ \E offset \in Offsets : SetActiveOffset(offset)
    \/ GetLeft
    \/ GetRight

SpecInv == InitInv /\ [][NextInv]_vars

\* The items handed to insert when the callbacks are recorded: the four items
\* of spawn_player, or a chemlight first
SelSupplies ==
    {<<"test_item", "perfectly_generic_item", "torch", "chemlight",
       "test_item", "test_item", "test_item", "test_item">>,
     <<"chemlight", "torch", "test_item", "test_item",
       "test_item", "test_item", "chemlight", "torch">>}

InitSel ==
    /\ Start(spawn(EmptyState, PlayerComponents(Pos_new(Fx(400), Fx(400)))))
    /\ despawned = {}
    /\ pc = "inventory_selection"
    /\ ticks = 0
    /\ order = "asc"
    /\ supply \in SelSupplies
    /\ inserted = 0
    /\ lightmap = Dark
    /\ lit = <<>>
    /\ selection = Unselected
    /\ hist = NoHistory
    /\ depth_buffer = <<>>
    /\ canvas = <<>>
    /\ light_rects = <<>>
    /\ last_call = Call("new", 0, None)

SpecSel == InitSel /\ [][NextInv]_vars

----------------------------------------------------------------------------
(* update(): the systems in the order of src/src/game.rs, then the flush *)

\* the navigation collider of entity e of w where the position of e puts it
NavAt(w, e) == unwrap(fix_collider(unwrap(w[e].cg).nav, unwrap(w[e].pos))).bounds

\* the entities of w that carry the components of a player, a navigation
\* collider included, and the walls of w
Walkers(w) ==
    {e \in DOMAIN w : /\ is_some(w[e].player) /\ is_some(w[e].pos) /\ is_some(w[e].cg)
                      /\ is_some(unwrap(w[e].cg).nav)}

Walls(w) == {e \in DOMAIN w : "Wall" \in w[e].tags}

\* the entities of w that update_projectiles visits
Projectiles(w) == {e \in DOMAIN w : is_some(w[e].proj) /\ is_some(w[e].pos)}

\* the bullets of w: spawn_bullet gives a projectile a sprite, a particle has none
Bullets(w) == {e \in DOMAIN w : is_some(w[e].proj) /\ is_some(w[e].sprite)}

\* the history of a world that update() has not run on yet: the cooldown the
\* player carries tells how long ago it fired
HistoryOf(w) ==
    [walking |-> \A e \in Walkers(w), e2 \in Walls(w) :
                    ~has_intersection(NavAt(w, e), NavAt(w, e2)),
     since_fire |-> IF Walkers(w) = {} THEN player_fire_cooldown
                    ELSE LET e == CHOOSE e \in Walkers(w) : TRUE
                         IN player_fire_cooldown - unwrap(w[e].player).can_fire_in,
     fire |-> "none",
     left0 |-> [e \in Projectiles(w) |-> unwrap(w[e].proj).ticks_left],
     moves |-> [e \in Projectiles(w) |-> 0],
     interactions |-> 0]

\* the history h with the projectiles that have been spawned into w
Born(h, w) ==
    [h EXCEPT !.left0 = [e \in DOMAIN h.left0 \cup Projectiles(w) |->
                            IF e \in DOMAIN h.left0 THEN h.left0[e]
                            ELSE unwrap(w[e].proj).ticks_left],
              !.moves = [e \in DOMAIN h.moves \cup Projectiles(w) |->
                            IF e \in DOMAIN h.moves THEN h.moves[e] ELSE 0]]

\* the history h after update_projectiles has logged l: the projectiles whose
\* position it has written have moved once more
Flown(h, l) ==
    [h EXCEPT !.moves = [e \in DOMAIN h.moves |->
                            IF \E i \in 1 .. Len(l) : l[i] = Ev("write", "pos", e, 4)
                            THEN h.moves[e] + 1 ELSE h.moves[e]]]

\* the interactable entities of w that the player of w, where update_player
\* has put it, interacts with on input
InReach(w, input) ==
    {e \in DOMAIN w :
        /\ input.interact
        /\ is_some(w[e].interact) /\ is_some(w[e].pos)
        /\ \E p \in Walkers(w) : distance_lt(unwrap(w[p].pos), unwrap(w[e].pos), 32)}

\* the history after update_player has turned w0 into w1 on input
Walked(h, w0, w1, input) ==
    [walking |-> h.walking /\ (Walkers(w0) = {} \/ ~input.shift),
     since_fire |-> IF Bullets(w1) \ DOMAIN w0 # {} THEN 0
                    ELSE Min2(h.since_fire + 1, player_fire_cooldown),
     fire |-> IF Walkers(w0) = {} THEN "none"
              ELSE IF input.fire_left # input.fire_right \/ input.fire_up # input.fire_down
              THEN "held"
              ELSE IF input.fire_left \/ input.fire_up THEN "cancelled"
              ELSE "none",
     left0 |-> h.left0,
     moves |-> h.moves,
     interactions |-> h.interactions + Cardinality(InReach(w1, input))]

\* the state within a tick: the log of the tick goes on
TickState == [State EXCEPT !.log = log]

SetT(s, next_pc) ==
    /\ Set(s)
    /\ pc' = IF s.panic THEN "panicked" ELSE next_pc

Room(s) == s.next_id <= MaxEntities + 1

\* the velocities thread_rng draws for a particle, in 1/Scale units
ParticleVelocities == {[x |-> -15, y |-> 5], [x |-> 10, y |-> 0]}

Pressed(keys) == [k \in DOMAIN NoInput |-> k \in keys]

\* the input states the main loop hands to update
Inputs ==
    {Pressed({}), Pressed({"up"}), Pressed({"down"}), Pressed({"left"}),
     Pressed({"right"}), Pressed({"right", "shift"}), Pressed({"fire_right"}),
     Pressed({"fire_left", "fire_right"}), Pressed({"fire_up", "fire_left"}),
     Pressed({"q"}), Pressed({"e"}), Pressed({"use_item"}), Pressed({"interact"})}

UpdateSpawners ==
    /\ pc = "update_spawners"
    /\ ticks < MaxTicks
    /\ \E v1 \in ParticleVelocities, v2 \in ParticleVelocities :
        LET s == update_spawners(State, order, <<v1, v2>>) IN
        /\ Room(s)
        /\ SetT(s, "update_player")
        /\ hist' = Born(hist, s.world)
    /\ ticks' = ticks + 1
    /\ UNCHANGED <<depth_buffer, canvas, light_rects, despawned, order, supply, inserted, lightmap, lit, selection, last_call>>

UpdatePlayer ==
    /\ pc = "update_player"
    /\ \E input \in Inputs :
        LET s == update_player(TickState, order, input) IN
        /\ Room(s)
        /\ SetT(s, "update_enemies")
        /\ hist' = Born(Walked(hist, world, s.world, input), s.world)
    /\ UNCHANGED <<depth_buffer, canvas, light_rects, despawned, ticks, order, supply, inserted, lightmap, lit, selection, last_call>>

\* UpdateEnemies as it would be if update went on to fix_colliders, leaving
\* update_projectiles out
UpdateEnemies_skips_projectiles ==
    /\ pc = "update_enemies"
    /\ SetT(update_enemies(TickState, order), "fix_colliders")
    /\ UNCHANGED <<depth_buffer, canvas, light_rects, despawned, ticks, order, supply, inserted, lightmap, lit, selection, hist, last_call>>

UpdateEnemies ==
    /\ pc = "update_enemies"
    /\ SetT(update_enemies(TickState, order), "update_projectiles")
    /\ UNCHANGED <<depth_buffer, canvas, light_rects, despawned, ticks, order, supply, inserted, lightmap, lit, selection, hist, last_call>>

UpdateProjectiles ==
    /\ pc = "update_projectiles"
    /\ SetT(update_projectiles(TickState, order), "fix_colliders")
    /\ hist' = Flown(hist, log')
    /\ UNCHANGED <<depth_buffer, canvas, light_rects, despawned, ticks, order, supply, inserted, lightmap, lit, selection, last_call>>

FixColliders ==
    /\ pc = "fix_colliders"
    /\ SetT(fix_colliders(TickState, order), "detect_collisions")
    /\ UNCHANGED <<depth_buffer, canvas, light_rects, despawned, ticks, order, supply, inserted, lightmap, lit, selection, hist, last_call>>

DetectCollisions ==
    /\ pc = "detect_collisions"
    /\ SetT(detect_collisions(TickState, order), "flush")
    /\ UNCHANGED <<depth_buffer, canvas, light_rects, despawned, ticks, order, supply, inserted, lightmap, lit, selection, hist, last_call>>

Range(q) == {q[i] : i \in 1 .. Len(q)}

\* the system whose push of e is the first in the log l
FirstPush(l, e) ==
    LET I == {i \in 1 .. Len(l) : l[i].ev = "push" /\ l[i].a = e}
    IN IF I = {} THEN "" ELSE l[CHOOSE i \in I : \A j \in I : i <= j].what

Flush ==
    /\ pc = "flush"
    /\ SetT(flush(TickState), "update_spawners")
    /\ despawned' = despawned \cup
            {[entity |-> e, by |-> FirstPush(log, e), tick |-> ticks] :
                e \in Range(despawn_queue)}
    /\ UNCHANGED <<depth_buffer, canvas, light_rects, ticks, order, supply, inserted, lightmap, lit, selection, hist, last_call>>

Next ==
    \/ UpdateSpawners
    \/ UpdatePlayer
    \/ UpdateEnemies
    \/ UpdateProjectiles
    \/ FixColliders
    \/ DetectCollisions
    \/ Flush

----------------------------------------------------------------------------
(* The worlds update() starts from *)

P(x, y) == Pos_new(Fx(x), Fx(y))

\* the player of P7 at (400,400) and a wall overlapping it by 5 px on its east
ScenePlayerWall == spawn_player(spawn_wall(EmptyState, P(424, 408)), P(400, 400))

\* a player, an enemy, a bullet inside the enemy's hitbox and flying into a wall
SceneBullet ==
    spawn_bullet(
        spawn_wall(spawn_enemy(spawn_player(EmptyState, P(400, 400)), P(300, 400)),
                   P(322, 400)),
        P(300, 400), [x |-> 1, y |-> 0])

\* a part of init: a wall, a torch, the particle emitter, the lever next to
\* the player, the player
SceneInit ==
    spawn_player(
        spawn_lever(
            spawn_particle_emitter(
                spawn_torch(spawn_wall(EmptyState, tile_to_pos(12, 11)), P(350, 570)),
                P(540, 640)),
            P(410, 400)),
        P(400, 400))

\* the state s after the projectile e has flown until n ticks are left to it
in_flight(s, e, n) == [s EXCEPT !.world[e].proj[1].ticks_left = n]

\* a player, a wall, a bullet about to hit the wall, a particle that touches
\* the wall when its last tick has passed, and a bullet in the open with one
\* tick left
SceneExpired ==
    LET s1 == spawn_wall(spawn_player(EmptyState, P(400, 400)), P(322, 400))
        s3 == spawn_bullet(s1, P(300, 400), [x |-> 1, y |-> 0])
        s4 == spawn_particle(s3, P(306, 400), [x |-> 10, y |-> 0])
        s5 == in_flight(s4, s3.next_id, 0)
    IN in_flight(spawn_bullet(s5, P(200, 200), [x |-> 0, y |-> 1]), s5.next_id, 1)

\* the player with the wall on its east, an enemy, and a bullet flying up from
\* below the enemy that reaches the enemy's navigation collider and hitbox in
\* the same tick
SceneBulletBelow ==
    spawn_bullet(spawn_enemy(ScenePlayerWall, P(300, 400)),
                 P(300, 426), [x |-> 0, y |-> -1])

\* two walls one above the other and a bullet that lies over the left edge of
\* both when its lifetime has run out
SceneExpiredInWalls ==
    LET s1 == spawn_wall(spawn_wall(EmptyState, P(322, 400)), P(322, 430))
    IN in_flight(spawn_bullet(s1, P(310, 416), [x |-> 1, y |-> 0]), s1.next_id, 0)

\* the player with two walls on its east, both 5 px into its navigation
\* collider
ScenePlayerTwoWalls == spawn_wall(ScenePlayerWall, P(424, 400))

\* the player clear of a wall on its east: its navigation collider (382..408,
\* 381..397) touches the wall's (408..440, 394..424) along the x axis and
\* lies 3 px below the wall's top, so one step right goes 3 px in on both axes
ScenePlayerAtCorner == spawn_player(spawn_wall(EmptyState, P(424, 408)), P(395, 381))

\* the player 1 px short of the wall on its east, level with it
ScenePlayerFacingWall == spawn_player(spawn_wall(EmptyState, P(424, 408)), P(394, 400))

\* the state s as it is n update() calls after the player e has fired to the
\* right: the cooldown has run for n ticks and the bullet has flown for n
fired_ago(s, e, n) ==
    LET s1 == [s EXCEPT !.world[e].player[1].can_fire_in = player_fire_cooldown - n]
        s2 == spawn_bullet(s1, Pos_add(unwrap(s.world[e].pos), Fx(30 + bullet_speed * n), 0),
                           [x |-> 1, y |-> 0])
    IN in_flight(s2, s1.next_id, bullet_lifetime - n)

\* the player in the open, two ticks and one tick before it can fire again
CoolingScenes == {fired_ago(spawn_player(EmptyState, P(400, 400)), 1, n) : n \in {18, 19}}

GameScenes ==
    {ScenePlayerWall, SceneBullet, SceneInit, SceneExpired, SceneBulletBelow,
     SceneExpiredInWalls, ScenePlayerTwoWalls, ScenePlayerAtCorner,
     ScenePlayerFacingWall}

Masks == {CH_NONE, CH_NAV, CH_HITBOX}

SlotNames == {"nav", "hitbox"}

\* where the 1x1 box E1 lies relative to the 32x32 box E2 at (0,0): inside its
\* right, left, top and bottom edge, in its corner, outside, and at a
\* position with a fraction
Placements ==
    {Pos_new(Fx(30), Fx(16)), Pos_new(Fx(1), Fx(16)), Pos_new(Fx(16), Fx(1)),
     Pos_new(Fx(16), Fx(30)), Pos_new(Fx(1), Fx(1)), Pos_new(Fx(40), Fx(16)),
     Pos_new(Fx(29) + Scale \div 2, Fx(16) + 4)}

\* two entities with one collider each, as a caller of World::spawn makes them
BoxScene(p1, st1, sl1, ch1, cw1, st2, sl2, ch2, cw2) ==
    spawn_box(
        spawn_box(EmptyState, p1, st1, sl1, <<0, 0, 1, 1>>, ch1, cw1, Some("noop")),
        P(0, 0), st2, sl2, <<0, 0, 32, 32>>, ch2, cw2, Some("noop"))

BoxScenes ==
    {BoxScene(p1, st1, sl1, ch1, cw1, st2, sl2, ch2, cw2) :
        p1 \in Placements, st1 \in BOOLEAN, sl1 \in SlotNames, ch1 \in Masks,
        cw1 \in Masks, st2 \in BOOLEAN, sl2 \in SlotNames, ch2 \in Masks,
        cw2 \in Masks}

\* the same with masks of one and of two bits, E1 inside the right edge of a
\* static E2
WideMasks == {CH_NAV, CH_HITBOX, BitsNavHitbox}

WideMaskScenes ==
    {BoxScene(Pos_new(Fx(30), Fx(16)), st1, sl1, ch1, cw1, TRUE, sl2, ch2, cw2) :
        st1 \in BOOLEAN, sl1 \in SlotNames, ch1 \in WideMasks, cw1 \in WideMasks,
        sl2 \in SlotNames, ch2 \in WideMasks, cw2 \in WideMasks}

\* a world whose player entity was spawned without a collider group, next to
\* a wall, the inventory filled as spawn_player fills it
ScenePlayerBare ==
    LET s == spawn_wall(spawn_player(EmptyState, P(400, 400)), P(424, 408))
    IN [s EXCEPT !.world[1].cg = None]

\* a world without a player entity: an enemy, the inventory filled as
\* spawn_player fills it, the player entity gone again
SceneNoPlayer ==
    LET s == spawn_enemy(spawn_player(EmptyState, P(400, 400)), P(30, 40))
    IN [s EXCEPT !.world = despawn(@, 1)]

OddScenes == {ScenePlayerBare, SceneNoPlayer}

\* an entity whose two colliders coincide, and a static box that lies in its
\* right edge or away from it
TwinScenes ==
    {spawn_box(spawn_twin(EmptyState, P(0, 0), <<0, 0, 8, 8>>, m, m),
               p2, TRUE, "nav", <<0, 0, 8, 8>>, CH_NAV, CH_NAV, Some("noop")) :
        m \in WideMasks, p2 \in {P(6, 0), P(40, 0)}}

Init ==
    /\ \E scene \in GameScenes \cup BoxScenes \cup WideMaskScenes \cup TwinScenes
                      \cup OddScenes \cup CoolingScenes :
          Start(scene)
    /\ despawned = {}
    /\ pc = "update_spawners"
    /\ ticks = 0
    /\ order \in {"asc", "desc"}
    /\ supply = <<>>
    /\ inserted = 0
    /\ lightmap = Dark
    /\ lit = <<>>
    /\ selection = Unselected
    /\ hist = HistoryOf(world)
    /\ depth_buffer = <<>>
    /\ canvas = <<>>
    /\ light_rects = <<>>
    /\ last_call = Call("new", 0, None)

Spec == Init /\ [][Next]_vars

----------------------------------------------------------------------------
(* The frames of the main loop as far as the lightmap goes *)

\* an entity with a position and a light, as a caller of World::spawn makes it
spawn_light(s, pos, light) ==
    spawn(s, [NoComponents EXCEPT !.pos = Some(pos), !.light = Some(light)])

LightRadii == {0, 1, 2}

\* the lights of a scene: any radius, intensity 0. or 1., two colours, at the
\* left pixel or halfway between the middle and the right one
LightKinds ==
    {[pos |-> p, light |-> Light(r, c, i)] :
        p \in {P(0, 0), Pos_new(Fx(1) + Scale \div 2, 0)},
        r \in LightRadii, c \in {"white", "gray"}, i \in {0, 1}}

LightScenes ==
    {spawn_light(EmptyState, k.pos, k.light) : k \in LightKinds}
    \cup {spawn_light(spawn_light(EmptyState, k1.pos, k1.light), k2.pos, k2.light) :
            k1 \in LightKinds, k2 \in LightKinds}

\* the buffer holds what the frame before has left
InitLight ==
    /\ \E scene \in LightScenes : Start(scene)
    /\ despawned = {}
    /\ pc = "clear_lightmap"
    /\ ticks = 0
    /\ order \in {"asc", "desc"}
    /\ supply = <<>>
    /\ inserted = 0
    /\ lightmap \in {Dark, clear(255)}
    /\ lit = <<>>
    /\ selection = Unselected
    /\ hist = NoHistory
    /\ depth_buffer = <<>>
    /\ canvas = <<>>
    /\ light_rects = <<>>
    /\ last_call = Call("new", 0, None)

ClearLightmap ==
    /\ pc = "clear_lightmap"
    /\ lightmap' = clear(Ambient)
    /\ lit' = <<>>
    /\ light_rects' = <<>>
    /\ pc' = "lights"
    /\ UNCHANGED <<depth_buffer, canvas, world, next_id, despawn_queue, player_pos, player_inventory,
                   particle_emitter_entity, log, despawned, ticks, order, supply,
                   inserted, selection, hist, last_call>>

AccumulateLight ==
    /\ pc = "lights"
    /\ lights_left(State, order, lit) # <<>>
    /\ LET e == Head(lights_left(State, order, lit)) IN
        /\ \E mask \in ShadowMasks : lightmap' = light_step(State, lightmap, e, mask)
        /\ lit' = Append(lit, e)
        /\ light_rects' = Append(light_rects,
                                 [e |-> e,
                                  at |-> light_rect(unwrap(world[e].pos), camera_pos(State))])
    /\ UNCHANGED <<depth_buffer, canvas, world, next_id, despawn_queue, player_pos, player_inventory,
                   particle_emitter_entity, log, despawned, pc, ticks, order, supply,
                   inserted, selection, hist, last_call>>

\* the query is through: the buffer goes to the canvas and the next frame starts
EndLightmap ==
    /\ pc = "lights"
    /\ lights_left(State, order, lit) = <<>>
    /\ pc' = "clear_lightmap"
    /\ UNCHANGED <<depth_buffer, canvas, light_rects, world, next_id, despawn_queue, player_pos, player_inventory,
                   particle_emitter_entity, log, despawned, ticks, order, supply,
                   inserted, lightmap, lit, selection, hist, last_call>>

NextLight ==
    \/ ClearLightmap
    \/ AccumulateLight
    \/ EndLightmap

SpecLight == InitLight /\ [][NextLight]_vars

----------------------------------------------------------------------------
(* render, and the frame of the main loop it is part of *)

\* frames.len() of get_frames: the frames main pushes under each name
frames_len(anim) ==
    CASE anim = "player_idle" -> 2
      [] anim = "player_walk" -> 4
      [] anim = "enemy_walk" -> 2
      [] anim = "bang" -> 2
      [] anim = "floor" -> 1
      [] anim = "wall" -> 1
      [] anim = "torch" -> 3
      [] anim = "lever" -> 1
      [] anim = "particle_emitter" -> 1
      [] anim = "chemlight" -> 1

\* rect.0 and rect.1 of the rectangle the spawn functions hand to
\* AnimatedSprite::new together with each animation
x_offset(sp) ==
    CASE sp.anim = "enemy_walk" -> -32
      [] sp.anim = "bullet" -> -8
      [] OTHER -> -16

y_offset(sp) ==
    CASE sp.anim \in {"player_idle", "player_walk", "wall"} -> -48
      [] sp.anim = "enemy_walk" -> -40
      [] sp.anim = "bullet" -> -8
      [] OTHER -> -16

\* the z_offset every spawn function hands to AnimatedSprite::new for the
\* sprite of an entity
z_offset(sp) == None

update_anim(sp, num_frames) ==
    IF sp.ticks + 1 >= sp.ticks_per_frame
    THEN [sp EXCEPT !.frame = IF sp.frame = num_frames THEN 0 ELSE sp.frame + 1,
                    !.ticks = 0]
    ELSE [sp EXCEPT !.ticks = sp.ticks + 1]

\* what spritesheet.draw_to_canvas is called with by draw, for the sprite sp of
\* entity e at pos; e tells whose sprite it is and z is None, as the call does
\* not go through the depth buffer
draw(e, sp, pos, cam) ==
    [e |-> e, anim |-> sp.anim, frame |-> sp.frame,
     x |-> trunc_i32(pos, "x") + x_offset(sp) + cam.x,
     y |-> trunc_i32(pos, "y") + y_offset(sp) + cam.y,
     z |-> None, flip_horizontal |-> sp.flip_horizontal]

\* the DrawCmd push builds; e tells whose sprite it is
DrawCmd(e, sp, pos, cam) ==
    [e |-> e, anim |-> sp.anim, frame |-> sp.frame,
     x |-> round_i32(pos, "x") + x_offset(sp) + cam.x,
     y |-> round_i32(pos, "y") + y_offset(sp) + cam.y,
     z |-> round_i32(pos, "y") + (IF is_some(z_offset(sp)) THEN unwrap(z_offset(sp)) ELSE 0),
     flip_horizontal |-> sp.flip_horizontal]

\* Ord for DrawCmd as it would be if it followed pos.z
DrawCmd_cmp_follows_z(a, b) ==
    CASE a.z < b.z -> "Less"
      [] a.z = b.z -> "Equal"
      [] OTHER -> "Greater"

\* Ord for DrawCmd: the reverse of the order of pos.z
DrawCmd_cmp(a, b) ==
    CASE a.z < b.z -> "Greater"
      [] a.z = b.z -> "Equal"
      [] OTHER -> "Less"

\* the commands BinaryHeap::pop may return: the greatest of the heap; which one
\* of several that compare equal is not specified
Greatest(buffer) ==
    {i \in 1 .. Len(buffer) :
        \A j \in 1 .. Len(buffer) : DrawCmd_cmp(buffer[j], buffer[i]) # "Greater"}

\* the entities the three queries of render visit
render_query(s, ord, pass) ==
    CASE pass = "draw_floors" -> Query(s, ord, {"pos", "sprite", "Floor"})
      [] pass = "draw_props" -> Query(s, ord, {"pos", "sprite", "Prop"})
      [] pass = "push_sprites" ->
            SelectSeq(Query(s, ord, {"pos", "sprite"}),
                      LAMBDA e : s.world[e].tags \cap {"Floor", "Prop"} = {})

\* the world after update_anim for the sprite of every entity of q
animated(w, q) ==
    [e \in DOMAIN w |->
        IF \E i \in 1 .. Len(q) : q[i] = e
        THEN [w[e] EXCEPT !.sprite = Some(update_anim(unwrap(w[e].sprite),
                                                      frames_len(unwrap(w[e].sprite).anim) - 1))]
        ELSE w[e]]

\* main clears the canvas, then render draws the floor tiles
DrawFloors ==
    /\ pc = "draw_floors"
    /\ LET q == render_query(State, order, "draw_floors") IN
        /\ canvas' = [i \in 1 .. Len(q) |->
                         draw(q[i], unwrap(world[q[i]].sprite), unwrap(world[q[i]].pos),
                              camera_pos(State))]
        /\ world' = animated(world, q)
    /\ pc' = "draw_props"
    /\ UNCHANGED <<next_id, despawn_queue, player_pos, player_inventory,
                   particle_emitter_entity, log, despawned, ticks, order, supply,
                   inserted, lightmap, lit, selection, hist, depth_buffer,
                   light_rects, last_call>>

DrawProps ==
    /\ pc = "draw_props"
    /\ LET q == render_query(State, order, "draw_props") IN
        /\ canvas' = canvas \o [i \in 1 .. Len(q) |->
                         draw(q[i], unwrap(world[q[i]].sprite), unwrap(world[q[i]].pos),
                              camera_pos(State))]
        /\ world' = animated(world, q)
    /\ pc' = "push_sprites"
    /\ UNCHANGED <<next_id, despawn_queue, player_pos, player_inventory,
                   particle_emitter_entity, log, despawned, ticks, order, supply,
                   inserted, lightmap, lit, selection, hist, depth_buffer,
                   light_rects, last_call>>

PushSprites ==
    /\ pc = "push_sprites"
    /\ LET q == render_query(State, order, "push_sprites") IN
        /\ depth_buffer' = depth_buffer \o [i \in 1 .. Len(q) |->
                         DrawCmd(q[i], unwrap(world[q[i]].sprite), unwrap(world[q[i]].pos),
                                 camera_pos(State))]
        /\ world' = animated(world, q)
    /\ pc' = "draw_to_canvas"
    /\ UNCHANGED <<next_id, despawn_queue, player_pos, player_inventory,
                   particle_emitter_entity, log, despawned, ticks, order, supply,
                   inserted, lightmap, lit, selection, hist, canvas,
                   light_rects, last_call>>

\* one turn of the loop of DepthBuffer::draw_to_canvas
PopDrawCmd ==
    /\ pc = "draw_to_canvas"
    /\ \E i \in Greatest(depth_buffer) :
        /\ canvas' = Append(canvas, [depth_buffer[i] EXCEPT !.z = Some(@)])
        /\ depth_buffer' = SubSeq(depth_buffer, 1, i - 1)
                              \o SubSeq(depth_buffer, i + 1, Len(depth_buffer))
    /\ UNCHANGED <<world, next_id, despawn_queue, player_pos, player_inventory,
                   particle_emitter_entity, log, despawned, pc, ticks, order, supply,
                   inserted, lightmap, lit, selection, hist, light_rects, last_call>>

\* pop has returned None: render returns (debug_draw_centerpoints is off) and
\* main goes on to build_lightmap
EndRender ==
    /\ pc = "draw_to_canvas"
    /\ depth_buffer = <<>>
    /\ pc' = "clear_lightmap"
    /\ UNCHANGED <<world, next_id, despawn_queue, player_pos, player_inventory,
                   particle_emitter_entity, log, despawned, ticks, order, supply,
                   inserted, lightmap, lit, selection, hist, depth_buffer, canvas,
                   light_rects, last_call>>

\* the lightmap is built: the next turn of the main loop renders again; what
\* update() does in between is the matter of Spec
EndFrame ==
    /\ pc = "lights"
    /\ lights_left(State, order, lit) = <<>>
    /\ ticks < MaxTicks
    /\ ticks' = ticks + 1
    /\ pc' = "draw_floors"
    /\ UNCHANGED <<world, next_id, despawn_queue, player_pos, player_inventory,
                   particle_emitter_entity, log, despawned, order, supply,
                   inserted, lightmap, lit, selection, hist, depth_buffer, canvas,
                   light_rects, last_call>>

NextRender ==
    \/ DrawFloors
    \/ DrawProps
    \/ PushSprites
    \/ PopDrawCmd
    \/ EndRender
    \/ ClearLightmap
    \/ AccumulateLight
    \/ EndFrame

\* a room with a floor tile, the particle emitter, a wall, a torch and a
\* lever, and the player at pp; the torch stands at (480.5, ty)
RenderScene(pp, ty) ==
    [spawn_lever(
        spawn_torch(
            spawn_wall(
                spawn_particle_emitter(
                    spawn_floor(spawn_player(EmptyState, pp), tile_to_pos(13, 12)),
                    P(450, 380)),
                P(424, 392)),
            Pos_new(Fx(480) + Scale \div 2, ty)),
        P(470, 400))
     EXCEPT !.player_pos = pp]

\* the player where the camera is at the origin of the room, and further right
\* and further down; the torch one step in front of the player and the lever
\* (z 401 against 400) or in front of everything
RenderScenes ==
    {RenderScene(pp, ty) : pp \in {P(400, 400), P(500, 400), P(500, 460)},
                           ty \in {Fx(400) + Scale \div 2, Fx(470)}}

InitRender ==
    /\ \E scene \in RenderScenes : Start(scene)
    /\ despawned = {}
    /\ pc = "draw_floors"
    /\ ticks = 0
    /\ order \in {"asc", "desc"}
    /\ supply = <<>>
    /\ inserted = 0
    /\ lightmap = Dark
    /\ lit = <<>>
    /\ selection = Unselected
    /\ hist = NoHistory
    /\ depth_buffer = <<>>
    /\ canvas = <<>>
    /\ light_rects = <<>>
    /\ last_call = Call("new", 0, None)

SpecRender == InitRender /\ [][NextRender]_vars

----------------------------------------------------------------------------
(* Properties of the inventory, checked under SpecInv *)

\* the item in the occupied slot nearest to the active slot in direction dir
\* (1: increasing, -1: decreasing, circular), the active slot itself excluded
Nearest(inv, dir) ==
    LET steps == {k \in 1 .. 7 :
                     is_some(inv.items[(inv.active_item_idx + dir * k) % 8])}
    IN IF steps = {} THEN None
       ELSE inv.items[(inv.active_item_idx
                        + dir * (CHOOSE k \in steps : \A j \in steps : k <= j)) % 8]

\* C5: insert returns true, and stores the item in a slot that was empty, if
\* and only if fewer than 8 slots are occupied when it is called
C5_InsertIffRoom ==
    [][last_call'.op = "insert" =>
        /\ unwrap(last_call'.ret) <=> (Cardinality(Occupied(player_inventory)) < 8)
        /\ unwrap(last_call'.ret) =>
              Cardinality(Occupied(player_inventory')) =
                  Cardinality(Occupied(player_inventory)) + 1]_vars

\* C6: insert into an inventory whose 8 slots are all occupied returns false,
\* fires no item callback and changes no slot and not the active index
C6_FullInsertIsNoop ==
    [][(last_call'.op = "insert" /\ Occupied(player_inventory) = Slots) =>
        /\ last_call'.ret = Some(FALSE)
        /\ log' = <<>>
        /\ player_inventory'.items = player_inventory.items
        /\ player_inventory'.active_item_idx = player_inventory.active_item_idx]_vars

C6_Witness ==
    /\ last_call.op = "insert"
    /\ last_call.ret = Some(FALSE)
    /\ Occupied(player_inventory) = Slots

\* C7: get_left and get_right leave the inventory as it is and return the item
\* of the nearest occupied slot other than the active one in the decreasing
\* and the increasing circular direction, nothing only if there is no such slot
C7_LookaheadIsNearest ==
    [][/\ last_call'.op = "get_left" =>
             /\ player_inventory' = player_inventory
             /\ last_call'.ret = Nearest(player_inventory, -1)
       /\ last_call'.op = "get_right" =>
             /\ player_inventory' = player_inventory
             /\ last_call'.ret = Nearest(player_inventory, 1)]_vars

----------------------------------------------------------------------------
(* Properties of collision detection and resolution, checked under Spec.
   They are stated on the step of detect_collisions: before it the bounds are
   the ones fix_colliders derived from the positions, after it the positions
   are the corrected ones. *)

\* every collider of the world w, as <<entity, slot>>
Colliders(w) ==
    {c \in (DOMAIN w) \X SlotNames : is_some(w[c[1]].cg) /\ is_some(unwrap(w[c[1]].cg)[c[2]])}

Col(w, c) == unwrap(unwrap(w[c[1]].cg)[c[2]])

Overlaps(a, b) ==
    /\ a.x < b.x + b.w /\ b.x < a.x + a.w
    /\ a.y < b.y + b.h /\ b.y < a.y + a.h

\* c1 detects c2: another entity's collider, permitted by the masks, intersecting
Reacts(w, c1, c2) ==
    /\ c1[1] # c2[1]
    /\ BitAnd(Col(w, c1).collides_with, Col(w, c2).channels) # 0
    /\ Overlaps(Col(w, c1).bounds, Col(w, c2).bounds)

Touched(w, c1) == {c2 \in Colliders(w) : Reacts(w, c1, c2)}

\* c2 is the only collider that the colliders of c1's entity detect, and it is
\* c1 that detects it
Alone(w, c1, c2) ==
    /\ c1 \in Colliders(w)
    /\ Touched(w, c1) = {c2}
    /\ \A c \in Colliders(w) : (c[1] = c1[1] /\ c # c1) => Touched(w, c) = {}

Sides == {"top", "bottom", "left", "right"}

\* the four penetration depths of b1 in b2
Depth(b1, b2) ==
    [top |-> b1.y + b1.h - b2.y, bottom |-> b2.y + b2.h - b1.y,
     left |-> b1.x + b1.w - b2.x, right |-> b2.x + b2.w - b1.x]

\* the sides whose depth is strictly smaller than the other three: one or none
Smallest(b1, b2) ==
    {k \in Sides : \A j \in Sides \ {k} : Depth(b1, b2)[k] < Depth(b1, b2)[j]}

\* the flag of C1 that belongs to a depth: leaving through the top of C2 means
\* C1 is blocked at its bottom
FlagOf(k) ==
    CASE k = "top" -> "bottom" [] k = "bottom" -> "top"
      [] k = "left" -> "right" [] k = "right" -> "left"

\* pos moved by n pixels out of C2 through side k
Pushed(pos, k, n) ==
    CASE k = "top" -> Pos_add(pos, 0, -Fx(n))
      [] k = "bottom" -> Pos_add(pos, 0, Fx(n))
      [] k = "left" -> Pos_add(pos, -Fx(n), 0)
      [] k = "right" -> Pos_add(pos, Fx(n), 0)

IsStatic(w, e) == "Static" \in w[e].tags

PosOf(w, e) == unwrap(w[e].pos)

DepthOf(w, c1, c2, k) == Depth(Col(w, c1).bounds, Col(w, c2).bounds)[k]

\* the case of C1: the navigation collider of the non-static e1 is in the
\* navigation collider of the static e2 and depth k is strictly smallest
C1_Case(w, e1, e2, k) ==
    /\ <<e2, "nav">> \in Colliders(w)
    /\ Alone(w, <<e1, "nav">>, <<e2, "nav">>)
    /\ ~IsStatic(w, e1) /\ IsStatic(w, e2)
    /\ Smallest(Col(w, <<e1, "nav">>).bounds, Col(w, <<e2, "nav">>).bounds) = {k}

CallbackLogged(l, w, c1, c2) ==
    is_some(Col(w, c1).on_collide) =>
        \E i \in 1 .. Len(l) : l[i] = Ev("callback", c1[2], c1[1], c2[1])

C3_Case(w, e1, c2, k) ==
    /\ Alone(w, <<e1, "nav">>, c2)
    /\ ~IsStatic(w, e1)
    /\ Smallest(Col(w, <<e1, "nav">>).bounds, Col(w, c2).bounds) = {k}
    /\ DepthOf(w, <<e1, "nav">>, c2, k) >= 2

MinDepth(b1, b2) ==
    CHOOSE d \in {Depth(b1, b2)[k] : k \in Sides} :
        \A k \in Sides : d <= Depth(b1, b2)[k]

PrioritySide(b1, b2) ==
    LET D == Depth(b1, b2)
        m == MinDepth(b1, b2)
    IN IF D.top = m THEN "top"
       ELSE IF D.bottom = m THEN "bottom"
       ELSE IF D.left = m THEN "left"
       ELSE "right"

\* C4: for every intersecting pair the masks permit, ties included, the side
\* of the smallest depth, the first in the order top, bottom, left, right among
\* equals, has its flag set on C1 after detection
C4_TieBreakSetsAFlag ==
    [][pc = "detect_collisions" =>
        \A c1 \in Colliders(world) : \A c2 \in Touched(world, c1) :
            Col(world', c1)[FlagOf(PrioritySide(Col(world, c1).bounds,
                                                Col(world, c2).bounds))]]_vars

----------------------------------------------------------------------------
(* Properties of the despawn queue, checked under Spec. The log holds the
   events of the current tick in the order they happened; it is emptied when
   update_spawners starts the next tick. *)

Pushes(l) == {i \in 1 .. Len(l) : l[i].ev = "push"}

\* the components the query of a system asks for
QueryKinds(system) ==
    CASE system = "update_projectiles" -> {"proj", "pos"}
      [] system = "fix_colliders" -> {"cg", "pos"}
      [] system = "detect_collisions" -> {"pos", "cg"}
      [] system = "test_all" -> {"cg"}

HasAll(w, e, kinds) ==
    /\ "pos" \in kinds => is_some(w[e].pos)
    /\ "cg" \in kinds => is_some(w[e].cg)
    /\ "proj" \in kinds => is_some(w[e].proj)

\* the systems that have run when the program is at position p of update
RanBefore(p) ==
    CASE p = "fix_colliders" -> {"update_projectiles"}
      [] p = "detect_collisions" -> {"update_projectiles", "fix_colliders"}
      [] p = "flush" -> {"update_projectiles", "fix_colliders", "detect_collisions"}
      [] OTHER -> {}

LaterSystems(system) ==
    CASE system = "update_projectiles" -> {"fix_colliders", "detect_collisions"}
      [] system = "fix_colliders" -> {"detect_collisions"}
      [] OTHER -> {}

\* the query of the system that has run visited e after position i of the log
VisitedAfter(l, i, system, e) ==
    \E k \in i + 1 .. Len(l) : l[k] = Ev("visit", system, e, 0)

\* every inner query of detect_collisions that started after position i of
\* the log visited e before the next one started
InnerVisitedAfter(l, i, e) ==
    \A j \in i + 1 .. Len(l) :
        (l[j].ev = "query" /\ l[j].what = "test_all") =>
            \E k \in j + 1 .. Len(l) :
                /\ l[k] = Ev("visit", "test_all", e, 0)
                /\ \A m \in j + 1 .. k - 1 : l[m].ev # "query"

\* the entities the events of the log refer to as visited or as a party of a
\* collision
Seen(l) ==
    {l[i].a : i \in {j \in 1 .. Len(l) : l[j].ev \in {"visit", "callback"}}}
    \cup {l[i].b : i \in {j \in 1 .. Len(l) : l[j].ev = "callback"}}

\* C8: an entity pushed onto the despawn queue in tick T stays in the store
\* until the flush of tick T and is visited by the query of every system that
\* runs later in tick T and asks for components it has, the inner queries of
\* detect_collisions included; after the flush it is in the store no more and
\* no query or callback of a later tick sees it
C8_DespawnSafety ==
    pc # "panicked" =>
        /\ \A e \in Range(despawn_queue) : e \in DOMAIN world
        /\ pc # "update_spawners" =>
              \A i \in Pushes(log) :
                  /\ \A system \in LaterSystems(log[i].what) \cap RanBefore(pc) :
                        HasAll(world, log[i].a, QueryKinds(system)) =>
                            VisitedAfter(log, i, system, log[i].a)
                  /\ InnerVisitedAfter(log, i, log[i].a)
        /\ \A d \in despawned : d.entity \notin DOMAIN world
        /\ pc # "update_spawners" =>
              \A d \in despawned : d.entity \notin Seen(log)

C8_Witness ==
    /\ pc = "flush"
    /\ \E d \in despawned : d.by = "update_projectiles" /\ d.tick = ticks - 1
    /\ \E d \in despawned : d.by = "detect_collisions"
    /\ \E i \in Pushes(log) :
        /\ log[i].what = "update_projectiles"
        /\ log[i].a \in DOMAIN world
        /\ VisitedAfter(log, i, "fix_colliders", log[i].a)
        /\ VisitedAfter(log, i, "detect_collisions", log[i].a)
        /\ \E j \in i + 1 .. Len(log) : log[j] = Ev("visit", "test_all", log[i].a, 0)

\* C9 as the spec states it: once an entity has been pushed onto the despawn
\* queue, no system writes any of its components in the rest of the tick
C9_NoWriteAfterQueuing ==
    \A i \in Pushes(log) :
        \A j \in i + 1 .. Len(log) : ~(log[j].ev = "write" /\ log[j].a = log[i].a)

\* C9 amended: once an entity has been pushed onto the despawn queue, no system
\* moves or ages it as a projectile in the rest of the tick (update_projectiles
\* leaves the position and ticks_left of the projectile it queues alone); only
\* fix_colliders, which rewrites its collider bounds, and detect_collisions,
\* which writes its collider flags, may correct its position and invokes its
\* callback, still write its components before the flush
C9_OnlyCollisionWritesAfterQueuing ==
    \A i \in Pushes(log) :
        \A j \in i + 1 .. Len(log) :
            (log[j].ev = "write" /\ log[j].a = log[i].a) =>
                /\ log[j].b \in {5, 6}
                /\ log[j].what # "ticks_left"

C9_Witness ==
    /\ pc = "flush"
    /\ \E i \in Pushes(log) :
        /\ log[i].what = "update_projectiles"
        /\ \E j \in i + 1 .. Len(log) : log[j] = Ev("write", "bounds", log[i].a, 5)
        /\ \E j \in i + 1 .. Len(log) : log[j] = Ev("write", "pos", log[i].a, 6)
        /\ unwrap(world[log[i].a].proj).ticks_left = 0

----------------------------------------------------------------------------
(* Symmetric detection, checked under Spec *)

\* c1 and c2 are colliders of distinct entities that overlap, have mirrored
\* masks with a common bit, and carry callbacks
Mirrored(w, c1, c2) ==
    /\ c1[1] # c2[1]
    /\ Overlaps(Col(w, c1).bounds, Col(w, c2).bounds)
    /\ Col(w, c1).channels = Col(w, c2).collides_with
    /\ Col(w, c1).collides_with = Col(w, c2).channels
    /\ BitAnd(Col(w, c1).channels, Col(w, c1).collides_with) # 0
    /\ is_some(Col(w, c1).on_collide) /\ is_some(Col(w, c2).on_collide)

\* C10: when detect_collisions has run, the callbacks of two overlapping
\* colliders with mirrored masks have both been invoked, C1's with (E1, E2)
\* and C2's with (E2, E1), in either iteration order and also when the entity
\* processed first had its position corrected
C10_SymmetricDetection ==
    pc = "flush" =>
        \A c1 \in Colliders(world), c2 \in Colliders(world) :
            Mirrored(world, c1, c2) =>
                /\ \E i \in 1 .. Len(log) : log[i] = Ev("callback", c1[2], c1[1], c2[1])
                /\ \E i \in 1 .. Len(log) : log[i] = Ev("callback", c2[2], c2[1], c1[1])

C10_Witness ==
    /\ pc = "flush"
    /\ \E c1 \in Colliders(world), c2 \in Colliders(world) :
        /\ Mirrored(world, c1, c2)
        /\ Col(world, c1).channels # Col(world, c1).collides_with
        /\ \E i \in 1 .. Len(log), j \in 1 .. Len(log) :
            /\ log[i] = Ev("callback", c1[2], c1[1], c2[1])
            /\ log[j] = Ev("write", "pos", c1[1], 6)
            /\ \E k \in j + 1 .. Len(log) : log[k] = Ev("callback", c2[2], c2[1], c1[1])

----------------------------------------------------------------------------
(* Static entities, checked under Spec *)

\* C11: collision resolution never changes the position of an entity that
\* carries the Static marker, while each of its colliders that detects a
\* collision is still marked colliding and has its callback invoked; no step
\* of update removes the marker
C11_StaticImmovable ==
    [][/\ \A e \in DOMAIN world \cap DOMAIN world' :
              IsStatic(world, e) => IsStatic(world', e)
       /\ pc = "detect_collisions" =>
             \A e \in DOMAIN world :
                 IsStatic(world, e) =>
                     /\ world'[e].pos = world[e].pos
                     /\ \A c1 \in Colliders(world) :
                            (c1[1] = e /\ Touched(world, c1) # {}) =>
                                /\ Col(world', c1).is_colliding
                                /\ \A c2 \in Touched(world, c1) :
                                       CallbackLogged(log', world, c1, c2)]_vars

\* a static and a non-static entity whose navigation colliders detect each
\* other: the static one is flagged and called back, the other one was moved
C11_Witness ==
    /\ pc = "flush"
    /\ \E e1 \in DOMAIN world, e2 \in DOMAIN world :
        /\ IsStatic(world, e1) /\ ~IsStatic(world, e2)
        /\ <<e1, "nav">> \in Colliders(world) /\ <<e2, "nav">> \in Colliders(world)
        /\ Reacts(world, <<e1, "nav">>, <<e2, "nav">>)
        /\ Reacts(world, <<e2, "nav">>, <<e1, "nav">>)
        /\ Smallest(Col(world, <<e1, "nav">>).bounds, Col(world, <<e2, "nav">>).bounds) # {}
        /\ Col(world, <<e1, "nav">>).is_colliding
        /\ \E i \in 1 .. Len(log) : log[i] = Ev("callback", "nav", e1, e2)
        /\ \E i \in 1 .. Len(log) : log[i] = Ev("write", "pos", e2, 6)
        /\ \A i \in 1 .. Len(log) : log[i] # Ev("write", "pos", e1, 6)

----------------------------------------------------------------------------
(* Properties of set_active_offset, checked under SpecInv *)

\* the slot reached from the active slot of inv by a move of offset modulo 8
\* and then at most 8 steps of one slot in the direction of offset that stop
\* at the first occupied slot
Landing(inv, offset) ==
    LET start == (inv.active_item_idx + offset) % 8
        dir == IF offset > 0 THEN 1 ELSE -1
        ks == {k \in 0 .. 8 : k = 8 \/ is_some(inv.items[(start + dir * k) % 8])}
    IN (start + dir * (CHOOSE k \in ks : \A j \in ks : k <= j)) % 8

\* the item callbacks set_active_offset is to make on inv, in their order
SelectionCalls(inv, offset) ==
    (IF is_some(active_item(inv))
     THEN <<Ev("item", "on_deselect", inv.active_item_idx, 0)>> ELSE <<>>)
    \o (IF is_some(inv.items[Landing(inv, offset)])
        THEN <<Ev("item", "on_select", Landing(inv, offset), 0)>> ELSE <<>>)

\* C12: set_active_offset(offset), offset # 0, calls on_deselect on the item
\* of the active slot if there is one, moves the active index by offset modulo
\* 8 and on over empty slots for at most 8 steps, then calls on_select on the
\* item of the new active slot if there is one; it makes no other item call
\* and returns for every occupancy, the empty inventory included
C12_SelectionOrder ==
    [][last_call'.op = "set_active_offset" =>
        /\ log' = SelectionCalls(player_inventory, last_call'.arg)
        /\ player_inventory'.active_item_idx =
               Landing(player_inventory, last_call'.arg)
        /\ player_inventory'.items = player_inventory.items]_vars

\* a call that left an occupied slot and stepped over an empty one
C12_Witness ==
    /\ last_call = Call("set_active_offset", 1, None)
    /\ Len(log) = 2
    /\ log[1].what = "on_deselect" /\ log[2].what = "on_select"
    /\ log[2].a = (log[1].a + 2) % 8
    /\ is_none(player_inventory.items[(log[1].a + 1) % 8])
    /\ player_inventory.active_item_idx = log[2].a

\* the occupied slot nearest to the active slot of inv going in direction dir
\* (1 or -1) around the 8 slots, the active slot itself coming last
NearestSlot(inv, dir) ==
    LET ks == {k \in 1 .. 8 : is_some(inv.items[(inv.active_item_idx + dir * k) % 8])}
    IN (inv.active_item_idx + dir * (CHOOSE k \in ks : \A j \in ks : k <= j)) % 8

\* C13: with at least one slot occupied, set_active_offset(1) makes the
\* nearest occupied slot after the active one in increasing circular order the
\* active slot and set_active_offset(-1) the nearest one in decreasing
\* circular order; the active slot stays the same only if no other slot is
\* occupied
C13_Wraparound ==
    [][(/\ last_call'.op = "set_active_offset"
        /\ last_call'.arg \in {-1, 1}
        /\ Occupied(player_inventory) # {}) =>
           /\ player_inventory'.active_item_idx =
                  NearestSlot(player_inventory, last_call'.arg)
           /\ player_inventory'.active_item_idx = player_inventory.active_item_idx =>
                  Occupied(player_inventory) = {player_inventory.active_item_idx}]_vars

\* the inventory with items in slots 0 and 5 only, back at slot 0 from slot 5
C13_Witness ==
    /\ last_call = Call("set_active_offset", 1, None)
    /\ Occupied(player_inventory) = {0, 5}
    /\ log = <<Ev("item", "on_deselect", 5, 0), Ev("item", "on_select", 0, 0)>>
    /\ player_inventory.active_item_idx = 0

----------------------------------------------------------------------------
(* Properties of tick, do_use and insert, checked under SpecInv *)

\* the occupied slots of inv in increasing order
OccupiedInOrder(inv) ==
    SelectSeq([i \in 1 .. 8 |-> i - 1], LAMBDA i : is_some(inv.items[i]))

\* the item whose on_tick returns Remove: a torch that has burnt down
TickRemoves(item) == item.name = "torch" /\ item.ticks_left = 0

\* C14: tick calls on_tick once on the item of each occupied slot, in the
\* order of the slots, with is_active true for the active slot only; the
\* slots whose on_tick returned Remove are empty afterwards, no other slot
\* is emptied or filled, and the active index stays
C14_TickEachOnce ==
    [][last_call'.op = "tick" =>
        LET inv == player_inventory
            sl == OccupiedInOrder(inv)
        IN /\ log' = [j \in 1 .. Len(sl) |->
                         Ev("item", "on_tick", sl[j],
                            IF sl[j] = inv.active_item_idx THEN 1 ELSE 0)]
           /\ \A i \in Slots :
                  is_some(player_inventory'.items[i]) <=>
                      (is_some(inv.items[i]) /\ ~TickRemoves(unwrap(inv.items[i])))
           /\ player_inventory'.active_item_idx = inv.active_item_idx]_vars

\* a tick over several items, the active one among them, that removed one
C14_Witness ==
    /\ last_call.op = "tick"
    /\ Len(log) > Cardinality(Occupied(player_inventory))
    /\ Cardinality(Occupied(player_inventory)) >= 2
    /\ \E i \in 1 .. Len(log) : log[i].b = 1 /\ log[i].a > 0
    /\ \E i \in 1 .. Len(log) : log[i].b = 0

\* the item whose on_use returns Remove: a chemlight at its last use
UseRemoves(item) == item.name = "chemlight" /\ item.uses_left = 1

\* C15: do_use calls on_use on the item of the active slot and on no other;
\* that slot is empty afterwards if on_use returned Remove and occupied
\* otherwise; the other slots and the active index stay; with the active slot
\* empty do_use makes no call and changes nothing
C15_UseActiveOnly ==
    [][last_call'.op = "do_use" =>
        LET inv == player_inventory
            a == inv.active_item_idx
        IN IF is_some(inv.items[a])
           THEN /\ log' = <<Ev("item", "on_use", a, 0)>>
                /\ is_none(player_inventory'.items[a]) <=> UseRemoves(unwrap(inv.items[a]))
                /\ \A i \in Slots \ {a} : player_inventory'.items[i] = inv.items[i]
                /\ player_inventory'.active_item_idx = a
           ELSE /\ log' = <<>>
                /\ player_inventory' = inv
                /\ world' = world
                /\ next_id' = next_id]_vars

\* a use that removed the item of the active slot, another slot being occupied
C15_Witness ==
    /\ last_call.op = "do_use"
    /\ player_inventory.active_item_idx > 0
    /\ log = <<Ev("item", "on_use", player_inventory.active_item_idx, 0)>>
    /\ is_none(active_item(player_inventory))
    /\ Occupied(player_inventory) # {}

\* C16: an insert that returns true has put the item into the empty slot of
\* lowest index, has left every other slot and the active index as they were,
\* and has called on_select, on the new item, exactly if no insert had
\* returned true before
C16_InsertLowestEmpty ==
    [][(last_call'.op = "insert" /\ last_call'.ret = Some(TRUE)) =>
        LET inv == player_inventory
            empty == Slots \ Occupied(inv)
        IN /\ empty # {}
           /\ \A i \in empty :
                  (\A j \in empty : i <= j) =>
                      /\ player_inventory'.items[i] = Some(NextItem)
                      /\ \A j \in Slots \ {i} : player_inventory'.items[j] = inv.items[j]
                      /\ log' = IF inserted = 0
                                THEN <<Ev("item", "on_select", i, 0)>> ELSE <<>>
           /\ player_inventory'.active_item_idx = inv.active_item_idx]_vars

\* an insert into an inventory that is empty again after removals, which
\* called nothing
C16_Witness ==
    /\ last_call.op = "insert"
    /\ last_call.ret = Some(TRUE)
    /\ inserted >= 2
    /\ Cardinality(Occupied(player_inventory)) = 1
    /\ log = <<>>

----------------------------------------------------------------------------
(* The order of the systems within update() *)

\* the position of update that follows position p
PhaseAfter(p) ==
    CASE p = "update_spawners" -> "update_player"
      [] p = "update_player" -> "update_enemies"
      [] p = "update_enemies" -> "update_projectiles"
      [] p = "update_projectiles" -> "fix_colliders"
      [] p = "fix_colliders" -> "detect_collisions"
      [] p = "detect_collisions" -> "flush"
      [] p = "flush" -> "update_spawners"

Systems ==
    {"update_spawners", "update_player", "update_enemies", "update_projectiles",
     "fix_colliders", "detect_collisions"}

SystemRank(system) ==
    CASE system = "update_spawners" -> 1
      [] system = "update_player" -> 2
      [] system = "update_enemies" -> 3
      [] system = "update_projectiles" -> 4
      [] system = "fix_colliders" -> 5
      [] system \in {"detect_collisions", "test_all"} -> 6

\* the place in the fixed order of the system an event of the log belongs to
EventRank(ev) ==
    CASE ev.ev \in {"visit", "push"} -> SystemRank(ev.what)
      [] ev.ev = "item" -> 2
      [] ev.ev = "write" -> ev.b
      [] ev.ev \in {"query", "callback"} -> 6

\* selection comes before use and use before the item ticks
ItemStage(callback) ==
    CASE callback \in {"on_select", "on_deselect"} -> 1
      [] callback = "on_use" -> 2
      [] callback = "on_tick" -> 3

\* the queries each system runs over the whole store
SystemQueries(system) ==
    CASE system = "update_spawners" -> {{"emitter", "pos"}}
      [] system = "update_player" ->
            {{"player", "pos", "cg", "sprite"}, {"interact", "pos"}}
      [] system = "update_enemies" ->
            {{"player", "pos"}, {"Enemy", "pos", "cg", "sprite"}}
      [] system = "update_projectiles" -> {{"proj", "pos"}}
      [] system = "fix_colliders" -> {{"cg", "pos"}}
      [] system = "detect_collisions" -> {{"pos", "cg"}}

Matches(w, e, kinds) ==
    \A k \in kinds :
        CASE k = "pos" -> is_some(w[e].pos)
          [] k = "sprite" -> is_some(w[e].sprite)
          [] k = "cg" -> is_some(w[e].cg)
          [] k = "player" -> is_some(w[e].player)
          [] k = "proj" -> is_some(w[e].proj)
          [] k = "emitter" -> is_some(w[e].emitter)
          [] k = "interact" -> is_some(w[e].interact)
          [] OTHER -> k \in w[e].tags

VisitCount(l, system, e) ==
    Cardinality({i \in 1 .. Len(l) : l[i] = Ev("visit", system, e, 0)})

IsPrefix(q, r) == Len(q) <= Len(r) /\ \A i \in 1 .. Len(q) : q[i] = r[i]

\* the events of the log follow the fixed order of the systems, the inventory
\* callbacks lying inside update_player with selection before use before tick
InFixedOrder(l) ==
    /\ \A i, j \in 1 .. Len(l) : i < j => EventRank(l[i]) <= EventRank(l[j])
    /\ \A i, j \in 1 .. Len(l) :
          (i < j /\ l[i].ev = "item" /\ l[j].ev = "item") =>
              ItemStage(l[i].what) <= ItemStage(l[j].what)

\* every system has visited every entity once for each of its queries the
\* entity matches, and no other entity
EachOnce(l, w) ==
    \A system \in Systems : \A e \in DOMAIN w :
        VisitCount(l, system, e) =
            Cardinality({q \in SystemQueries(system) : Matches(w, e, q)})

----------------------------------------------------------------------------
(* The bounds fix_colliders leaves to detect_collisions *)

\* r is the integer nearest to the coordinate v, a half going away from zero
IsRounded(v, r) ==
    /\ 2 * Abs(v - Fx(r)) <= Scale
    /\ 2 * Abs(v - Fx(r)) = Scale => Abs(Fx(r)) > Abs(v)

\* the bounds of collider c sit at the rounded position pos plus the offsets
FixedAt(c, pos) ==
    /\ ~pos.nan
    /\ IsRounded(pos.x, c.bounds.x - c.x_offset)
    /\ IsRounded(pos.y, c.bounds.y - c.y_offset)

\* the colliders of w that belong to an entity with a position
Positioned(w) == {c \in Colliders(w) : is_some(w[c[1]].pos)}

\* C18: when fix_colliders has run, every present navigation and hitbox
\* collider of every entity with a position and a collider group has its
\* bounds at (round(pos.x) + x_offset, round(pos.y) + y_offset), pos being the
\* position the movement systems of the tick have left, which fix_colliders
\* does not change; no step changes the width, the height or the offsets of
\* a collider; detect_collisions starts from these bounds
C18_BoundsFollowPosition ==
    [][/\ pc' = "detect_collisions" =>
            \A c \in Positioned(world') : FixedAt(Col(world', c), PosOf(world', c[1]))
       /\ pc = "fix_colliders" =>
            /\ DOMAIN world' = DOMAIN world
            /\ \A e \in DOMAIN world : world'[e].pos = world[e].pos
       /\ \A c \in Colliders(world) \cap Colliders(world') :
            /\ Col(world', c).bounds.w = Col(world, c).bounds.w
            /\ Col(world', c).bounds.h = Col(world, c).bounds.h
            /\ Col(world', c).x_offset = Col(world, c).x_offset
            /\ Col(world', c).y_offset = Col(world, c).y_offset]_vars

\* detection is about to start; a collider with an offset belongs to an entity
\* that has moved in this tick to a position halfway between two pixels
C18_Witness ==
    /\ pc = "detect_collisions"
    /\ \E c \in Positioned(world) :
          /\ PosOf(world, c[1]).x % Scale = Scale \div 2
          /\ Col(world, c).x_offset # 0
          /\ \E i \in 1 .. Len(log) :
                log[i].ev = "write" /\ log[i].what = "pos" /\ log[i].a = c[1]
    /\ \E c \in Positioned(world) :
          /\ \E i \in 1 .. Len(log) : log[i] = Ev("write", "pos", c[1], 2)
          /\ Col(world, c).bounds.x # Col(world, c).x_offset

----------------------------------------------------------------------------
(* The side flags detect_collisions leaves *)

\* the side flags of collider c
SideFlags(c) == [k \in Sides |-> c[k]]

\* C2 lies over the edge of C1 that flag f names by a depth strictly smaller
\* than the depths at the other three edges
OverEdge(w, c1, c2, f) ==
    \E k \in Sides : FlagOf(k) = f /\ Smallest(Col(w, c1).bounds, Col(w, c2).bounds) = {k}

\* C19: for an intersecting, mask-permitted pair with one penetration depth
\* strictly smaller than the other three, detection sets on C1 the flag of
\* the edge of C1 that C2 overlaps (bottom, top, right or left) and no flag
\* that no such pair calls for, and the flags are still set when update()
\* returns
C19_MatchingSideFlag ==
    [][/\ pc = "detect_collisions" =>
            \A c1 \in Positioned(world) : \A f \in Sides :
                Col(world', c1)[f] <=> \E c2 \in Touched(world, c1) : OverEdge(world, c1, c2, f)
       /\ pc = "flush" =>
            \A c \in Colliders(world') : SideFlags(Col(world', c)) = SideFlags(Col(world, c))]_vars

\* update() has returned: a wall overlaps the east side of the player's
\* navigation collider by 5 px and is all that collider detects; right is
\* set and left, top and bottom are not
C19_Witness ==
    /\ pc = "update_spawners"
    /\ ticks >= 1
    /\ \E c1 \in Colliders(world), c2 \in Colliders(world) :
          /\ c1[2] = "nav"
          /\ is_some(world[c1[1]].player)
          /\ "Wall" \in world[c2[1]].tags
          /\ Touched(world, c1) = {c2}
          /\ DepthOf(world, c1, c2, "left") = 5
          /\ Smallest(Col(world, c1).bounds, Col(world, c2).bounds) = {"left"}
          /\ SideFlags(Col(world, c1)) =
                [k \in Sides |-> k = "right"]

----------------------------------------------------------------------------
(* is_colliding and the collision callbacks *)

\* how often the log l has the callback of collider c1 invoked with (E1, e2)
CallbackCount(l, c1, e2) ==
    Cardinality({i \in 1 .. Len(l) : l[i] = Ev("callback", c1[2], c1[1], e2)})

\* the colliders of entity e2 that c1 detects
TouchedOn(w, c1, e2) == {c2 \in Touched(w, c1) : c2[1] = e2}

\* C20: after detect_collisions the is_colliding flag of a collider C1 is
\* true exactly when some collider C2 of another entity has
\* C1.collides_with & C2.channels # 0 and bounds intersecting those of C1,
\* whatever the flag was before and whatever C2.collides_with and C1.channels
\* are; the callback of C1 has been invoked with (E1, E2) once for each such
\* C2 of E2 and not otherwise
C20_IsCollidingIffDetected ==
    [][pc = "detect_collisions" =>
          \A c1 \in Positioned(world) :
              /\ Col(world', c1).is_colliding <=> Touched(world, c1) # {}
              /\ \A e2 \in DOMAIN world :
                    CallbackCount(log', c1, e2) =
                        IF is_some(Col(world, c1).on_collide)
                        THEN Cardinality(TouchedOn(world, c1, e2))
                        ELSE 0]_vars

\* detection is about to start: a collider still carries is_colliding from the
\* tick before and detects nothing now, and a collider with a callback detects
\* both colliders of an entity, one of which at least does not detect it
C20_Witness ==
    /\ pc = "detect_collisions"
    /\ \E c \in Positioned(world) : Col(world, c).is_colliding /\ Touched(world, c) = {}
    /\ \E c1 \in Positioned(world), c2 \in Positioned(world) :
          /\ Reacts(world, c1, c2)
          /\ ~Reacts(world, c2, c1)
          /\ is_some(Col(world, c1).on_collide)
          /\ Cardinality(TouchedOn(world, c1, c2[1])) = 2

----------------------------------------------------------------------------
(* No collision of an entity with itself *)

\* collider c1 overlaps a collider of its own entity that its mask permits
SelfOverlap(w, c1) ==
    \E c2 \in Colliders(w) :
        /\ c2[1] = c1[1]
        /\ c2 # c1
        /\ BitAnd(Col(w, c1).collides_with, Col(w, c2).channels) # 0
        /\ Overlaps(Col(w, c1).bounds, Col(w, c2).bounds)

Untouched(c) == ~c.is_colliding /\ SideFlags(c) = [k \in Sides |-> FALSE]

\* C21: no collision callback is invoked with self_entity = other_entity, and
\* a collider that detects no collider of another entity is left by
\* detect_collisions not colliding, with no side flag and with its entity
\* where it was, also when it overlaps the other collider of its own entity
\* and the masks match
C21_NoSelfCollision ==
    [][/\ \A i \in 1 .. Len(log') : log'[i].ev = "callback" => log'[i].a # log'[i].b
       /\ pc = "detect_collisions" =>
            \A c1 \in Positioned(world) :
                Touched(world, c1) = {} =>
                    /\ Untouched(Col(world', c1))
                    /\ (\A c \in Colliders(world) : c[1] = c1[1] => Touched(world, c) = {})
                          => world'[c1[1]].pos = world[c1[1]].pos]_vars

\* detection has run over an entity whose navigation collider and hitbox
\* coincide with matching masks and detect nothing else: neither collides
C21_Witness ==
    /\ pc = "flush"
    /\ \E e \in DOMAIN world :
          /\ {<<e, "nav">>, <<e, "hitbox">>} \subseteq Positioned(world)
          /\ SelfOverlap(world, <<e, "nav">>)
          /\ SelfOverlap(world, <<e, "hitbox">>)
          /\ Touched(world, <<e, "nav">>) = {}
          /\ Untouched(Col(world, <<e, "nav">>))
          /\ Untouched(Col(world, <<e, "hitbox">>))
          /\ \E i \in 1 .. Len(log) : log[i] = Ev("visit", "test_all", e, 0)

----------------------------------------------------------------------------
(* The shape of the inventory *)

\* C22: after any sequence of insert, tick, do_use and set_active_offset the
\* inventory has exactly the 8 slots 0..7 and the active index is one of
\* them, so that one slot at most is active and every access is in bounds
C22_EightSlots ==
    /\ DOMAIN player_inventory.items = 0 .. 7
    /\ player_inventory.active_item_idx \in 0 .. 7

\* a whole turn to the left has been asked for in an inventory with a hole
\* below its highest item, after an item was removed
C22_Witness ==
    /\ last_call.op = "set_active_offset"
    /\ last_call.arg = -8
    /\ \E i \in Slots, j \in Slots :
          i < j /\ is_none(player_inventory.items[i]) /\ is_some(player_inventory.items[j])
    /\ player_inventory.active_item_idx \in Occupied(player_inventory)
    /\ Cardinality(Occupied(player_inventory)) < inserted

----------------------------------------------------------------------------
(* The illumination buffer, checked under SpecLight *)

\* the entities of w with a light and a position
LightEntities(w) == {e \in DOMAIN w : is_some(w[e].light) /\ is_some(w[e].pos)}

\* what the light of entity e sheds on pixel p where nothing occludes it
Unmasked(w, e, p) ==
    LET l == unwrap(w[e].light) IN
    IF l.radius = 0 \/ l.intensity = 0 THEN 0
    ELSE (light_texel(p, trunc_i32(PosOf(w, e), "x"), l.radius) * red(l.color) * l.intensity)
            \div 255

\* C23: the buffer starts every frame at the ambient gray; accumulating a
\* light of radius 0 or intensity 0 leaves the buffer as it was, whatever the
\* occlusion mask; every other light adds to each pixel its contribution or,
\* where the mask is black, nothing; and when the frame ends every light has
\* been accumulated exactly once
C23_ZeroLightAddsNothing ==
    [][/\ pc = "clear_lightmap" => lightmap' = [p \in Pixels |-> 70] /\ lit' = <<>>
       /\ (pc = "lights" /\ pc' = "lights") =>
            /\ Len(lit') = Len(lit) + 1
            /\ LET e == lit'[Len(lit')]
                   l == unwrap(world[e].light)
               IN /\ e \in LightEntities(world) \ Range(lit)
                  /\ (l.radius = 0 \/ l.intensity = 0) => lightmap' = lightmap
                  /\ \A p \in Pixels :
                        lightmap'[p] \in
                            {lightmap[p], Min2(255, lightmap[p] + Unmasked(world, e, p))}
       /\ (pc = "lights" /\ pc' = "clear_lightmap") =>
            /\ Range(lit) = LightEntities(world)
            /\ Len(lit) = Cardinality(LightEntities(world))
            /\ lightmap' = lightmap]_vars

\* a light that sheds something has raised the buffer above the ambient gray,
\* and after it a light of radius 0 or intensity 0 has been accumulated
C23_Witness ==
    /\ pc = "lights"
    /\ Len(lit) = 2
    /\ LET l == unwrap(world[lit[2]].light) IN
          (l.radius = 0 /\ l.intensity > 0) \/ (l.radius > 0 /\ l.intensity = 0)
    /\ \E p \in Pixels : lightmap[p] > 70
    /\ \E p \in Pixels : lightmap[p] = 70 /\ Unmasked(world, lit[1], p) > 0

----------------------------------------------------------------------------
(* Missing components and empty queries *)

\* the player entities that have no collider group
BarePlayers(w) == {e \in DOMAIN w : is_some(w[e].player) /\ is_none(w[e].cg)}

\* C24 as the spec states it: update_player on a world whose player entity
\* lacks a collider group ends update() with a panic instead of going on with
\* the tick
C24_MissingColliderGroupPanics ==
    [][(pc = "update_player" /\ BarePlayers(world) # {}) => pc' = "panicked"]_vars

Players(w) == {e \in DOMAIN w : is_some(w[e].player)}

Enemies(w) == {e \in DOMAIN w : "Enemy" \in w[e].tags /\ is_some(w[e].pos)}

Dist2(p) == p.x * p.x + p.y * p.y

\* the enemy at p has gone to q, towards (0,0): no coordinate has moved away
\* from 0 or by more than the enemy speed, and q is nearer to (0,0) than p
TowardsOrigin(p, q) ==
    /\ ~p.nan /\ ~q.nan
    /\ Abs(q.x) <= Abs(p.x) /\ Abs(p.x - q.x) <= enemy_speed_fx
    /\ Abs(q.y) <= Abs(p.y) /\ Abs(p.y - q.y) <= enemy_speed_fx
    /\ Dist2(q) < Dist2(p)

\* C25: in a world without a player entity update() runs through all its
\* systems without a panic; update_player calls no inventory callback and
\* leaves the inventory and the world as they are; update_enemies moves every
\* enemy towards the default position (0,0)
C25_NoPlayerIsNoError ==
    [][Players(world) = {} =>
          /\ pc' = PhaseAfter(pc)
          /\ pc = "update_player" =>
                /\ player_inventory' = player_inventory
                /\ world' = world
                /\ \A i \in 1 .. Len(log') :
                      log'[i].ev # "item" /\ log'[i].what # "update_player"
          /\ pc = "update_enemies" =>
                \A e \in Enemies(world) : TowardsOrigin(PosOf(world, e), PosOf(world', e))]_vars

\* update_enemies has moved an enemy nearer to (0,0) in a world without a
\* player whose inventory holds four items, the active slot among them
C25_Witness ==
    /\ pc = "update_projectiles"
    /\ Players(world) = {}
    /\ player_inventory.active_item_idx \in Occupied(player_inventory)
    /\ Cardinality(Occupied(player_inventory)) = 4
    /\ \E e \in Enemies(world) :
          /\ \E i \in 1 .. Len(log) : log[i] = Ev("write", "pos", e, 3)
          /\ Dist2(PosOf(world, e)) < Dist2(P(30, 40))

----------------------------------------------------------------------------
(* The flush of a despawn queue that holds an entity more than once *)

\* how often entity e is in the queue q
TimesQueued(q, e) == Cardinality({i \in 1 .. Len(q) : q[i] = e})

\* C26: an entity may be in the despawn queue more than once; the flush at
\* the end of update() removes exactly the entities in the queue and leaves
\* every other entity as it is, and the queue is empty whenever update() has
\* returned
C26_RequeueingIsHarmless ==
    [][/\ pc = "flush" =>
            /\ pc' = "update_spawners"
            /\ DOMAIN world' = DOMAIN world \ Range(despawn_queue)
            /\ \A e \in DOMAIN world' : world'[e] = world[e]
       /\ pc' = "update_spawners" => despawn_queue' = <<>>]_vars

\* the flush is next: a projectile whose lifetime ran out in this tick lies
\* over two walls and is in the queue three times
C26_Witness ==
    /\ pc = "flush"
    /\ \E e \in DOMAIN world :
          /\ TimesQueued(despawn_queue, e) = 3
          /\ \E i \in 1 .. Len(log) : log[i] = Ev("push", "update_projectiles", e, 0)
          /\ Cardinality({i \in 1 .. Len(log) : log[i] = Ev("push", "detect_collisions", e, 0)}) = 2
          /\ Cardinality({w \in DOMAIN world : \E i \in 1 .. Len(log) :
                              log[i] = Ev("callback", "nav", e, w)}) = 2
    /\ \E e \in DOMAIN world : TimesQueued(despawn_queue, e) = 0

----------------------------------------------------------------------------
(* Nested queries *)

\* the entity whose collider group the outer query of detect_collisions holds
\* while the inner query that logged event i of l runs
HeldBy(l, i) ==
    LET Q == {j \in 1 .. i : l[j].ev = "query" /\ l[j].what = "test_all"}
    IN l[CHOOSE j \in Q : \A k \in Q : k <= j].a

\* C27 as the spec states it: the inner query of detect_collisions, which asks
\* for every collider group mutably, is not handed the collider group of the
\* entity whose collider group the outer query holds mutably
C27_InnerQuerySparesHeldEntity ==
    \A i \in 1 .. Len(log) :
        (log[i].ev = "visit" /\ log[i].what = "test_all") => log[i].a # HeldBy(log, i)

----------------------------------------------------------------------------
(* Bounds and positions during detect_collisions *)

\* the navigation collider c1 of a non-static entity lies in two static
\* navigation colliders and in nothing else, in both through side k by depth
\* d, which is strictly its smallest depth in both
InTwoStatics(w, c1, k, d) ==
    /\ c1[2] = "nav"
    /\ ~IsStatic(w, c1[1])
    /\ Cardinality(Touched(w, c1)) = 2
    /\ \A c2 \in Touched(w, c1) :
          /\ c2[2] = "nav"
          /\ IsStatic(w, c2[1])
          /\ Smallest(Col(w, c1).bounds, Col(w, c2).bounds) = {k}
          /\ DepthOf(w, c1, c2, k) = d
    /\ \A c \in Colliders(w) : (c[1] = c1[1] /\ c # c1) => Touched(w, c) = {}

\* C28 as the spec states it: an entity that lies in two static boxes on the
\* same side by the same depth d is moved by detect_collisions as for one
\* overlap (by d - 1 as the code corrects one overlap, or by d + 1 as the
\* spec has it), not twice, the second test seeing the corrected position
C28_TwoOverlapsOneDisplacement ==
    [][pc = "detect_collisions" =>
          \A c1 \in Positioned(world) : \A k \in Sides : \A d \in 2 .. 32 :
              InTwoStatics(world, c1, k, d) =>
                  PosOf(world', c1[1]) \in
                      {Pushed(PosOf(world, c1[1]), k, d - 1),
                       Pushed(PosOf(world, c1[1]), k, d + 1)}]_vars

----------------------------------------------------------------------------
(* Projectiles and the hitbox of an enemy *)

\* the colliders of projectile entities whose bounds lie over the hitbox of
\* the enemy e
ProjectilesOver(w, e) ==
    {c2 \in Colliders(w) :
        /\ is_some(w[c2[1]].proj)
        /\ <<e, "hitbox">> \in Colliders(w)
        /\ Overlaps(Col(w, <<e, "hitbox">>).bounds, Col(w, c2).bounds)}

\* C29 as the spec states it: when the collider of a projectile lies over the
\* hitbox of an enemy, detect_collisions invokes the callback of the hitbox
\* with the projectile as other entity and the enemy is pushed onto the
\* despawn queue, to be gone after the flush
C29_ProjectileKillsEnemy ==
    [][pc = "detect_collisions" =>
          \A e \in Enemies(world) : \A c2 \in ProjectilesOver(world, e) :
              /\ CallbackCount(log', <<e, "hitbox">>, c2[1]) >= 1
              /\ e \in Range(despawn_queue')]_vars

----------------------------------------------------------------------------
(* Which items have been told that they are selected *)

\* C30 as stated: whenever the active slot is occupied the last of on_select
\* and on_deselect that its item has received is on_select, and for no item
\* in another slot is it on_select
C30_SelectionConsistent ==
    /\ player_inventory.active_item_idx \in Occupied(player_inventory) =>
          selection[player_inventory.active_item_idx]
    /\ \A i \in Slots \ {player_inventory.active_item_idx} : ~selection[i]

----------------------------------------------------------------------------
(* Going to the next item and back, checked under SpecInv *)

\* C31: if the active slot is occupied, set_active_offset(1) followed by
\* set_active_offset(-1), and likewise set_active_offset(-1) followed by
\* set_active_offset(1), restores the active index, and neither call changes
\* the contents of a slot.  The first call has logged on_deselect for the
\* slot that was active, which is how the second step knows the index to
\* return to.
C31_SelectionRoundTrip ==
    [][/\ last_call'.op = "set_active_offset" =>
            /\ player_inventory'.items = player_inventory.items
            /\ player_inventory'.num_items = player_inventory.num_items
       /\ (/\ last_call.op = "set_active_offset"
           /\ last_call.arg \in {1, -1}
           /\ log # <<>>
           /\ log[1].what = "on_deselect"
           /\ last_call'.op = "set_active_offset"
           /\ last_call'.arg = -last_call.arg) =>
            player_inventory'.active_item_idx = log[1].a]_vars

\* the step back of a round trip that went over an empty slot to the next
\* item and has returned over it
C31_Witness ==
    /\ last_call.op = "set_active_offset"
    /\ last_call.arg = -1
    /\ Len(log) = 2
    /\ log[1].what = "on_deselect" /\ log[2].what = "on_select"
    /\ log[1].a = (log[2].a + 2) % 8
    /\ is_none(player_inventory.items[(log[2].a + 1) % 8])
    /\ player_inventory.active_item_idx = log[2].a

----------------------------------------------------------------------------
(* Walking into walls *)

\* how far the rectangle b1 lies inside b2 along the x and along the y axis
Inside(b1, b2) ==
    [x |-> Min2(right(b1), right(b2)) - Max2(left(b1), left(b2)),
     y |-> Min2(bottom(b1), bottom(b2)) - Max2(top(b1), top(b2))]

\* C32 as stated: a player that started clear of the walls and has walked at
\* normal speed only is, at the end of every update(), nowhere more than 1
\* unit inside the navigation collider of a wall on both axes at once
C32_WallContainment ==
    (pc = "update_spawners" /\ hist.walking) =>
        \A e \in Walkers(world), e2 \in Walls(world) :
            LET d == Inside(NavAt(world, e), NavAt(world, e2))
            IN ~(d.x > 1 /\ d.y > 1)

----------------------------------------------------------------------------
(* The fire cooldown of the player *)

----------------------------------------------------------------------------
(* The lifetime of a projectile *)

\* a collider of entity e of w is marked as colliding
Collides(w, e) ==
    /\ is_some(w[e].cg)
    /\ \E sl \in {"nav", "hitbox"} :
        is_some(unwrap(w[e].cg)[sl]) /\ unwrap(unwrap(w[e].cg)[sl]).is_colliding

\* C34: update_projectiles moves a projectile with ticks_left > 0 by its
\* velocity, takes one tick off it and does not queue it; a projectile with
\* ticks_left = 0 has then been moved as many times as the ticks_left it was
\* created with, is queued and is not moved; the flush of the same update()
\* removes what is queued; ticks_left never goes below 0, nothing else
\* changes it, and nothing else moves a projectile that does not collide
C34_ProjectileLifetime ==
    [][/\ pc = "update_projectiles" =>
            \A e \in Projectiles(world) :
                LET pr == unwrap(world[e].proj) IN
                /\ e \in DOMAIN world' /\ e \in DOMAIN hist.left0
                /\ unwrap(world'[e].proj).ticks_left >= 0
                /\ hist.moves[e] + pr.ticks_left = hist.left0[e]
                /\ IF pr.ticks_left > 0
                   THEN /\ unwrap(world'[e].pos) =
                               Pos_add(unwrap(world[e].pos), pr.velocity.x, pr.velocity.y)
                        /\ unwrap(world'[e].proj).ticks_left = pr.ticks_left - 1
                        /\ hist'.moves[e] = hist.moves[e] + 1
                        /\ TimesQueued(despawn_queue', e) = TimesQueued(despawn_queue, e)
                   ELSE /\ world'[e].pos = world[e].pos
                        /\ unwrap(world'[e].proj).ticks_left = 0
                        /\ hist'.moves[e] = hist.left0[e]
                        /\ TimesQueued(despawn_queue', e) = TimesQueued(despawn_queue, e) + 1
       /\ pc = "flush" => \A e \in Range(despawn_queue) : e \notin DOMAIN world'
       /\ pc # "update_projectiles" =>
            \A e \in Projectiles(world) \cap DOMAIN world' :
                /\ unwrap(world'[e].proj).ticks_left = unwrap(world[e].proj).ticks_left
                /\ ~Collides(world', e) =>
                        /\ world'[e].pos = world[e].pos
                        /\ world'[e].proj = world[e].proj]_vars

\* a projectile created with one tick left that never collided: one update()
\* has moved it, the next has queued it in update_projectiles and removed it
C34_Witness ==
    /\ pc = "update_spawners"
    /\ ticks = 2
    /\ \E e \in DOMAIN hist.left0 \ DOMAIN world :
        /\ hist.left0[e] = 1
        /\ hist.moves[e] = 1
        /\ [entity |-> e, by |-> "update_projectiles", tick |-> 2] \in despawned

----------------------------------------------------------------------------
(* The torch burning down, checked under SpecInv *)

\* the slots of inv that hold a torch
Torches(inv) == {i \in Occupied(inv) : unwrap(inv.items[i]).name = "torch"}

\* the light radius the torch t is to write in a tick that finds it as it is
Written(t) == IF t.ticks_left = 0 THEN 0 ELSE (100 * t.ticks_left) \div t.ticks_max + 20

\* the light radius of the player of w
PlayerRadius(w) ==
    LET e == CHOOSE e \in DOMAIN w : is_some(w[e].player) IN unwrap(w[e].light).radius

----------------------------------------------------------------------------
(* The uses of a chemlight, checked under SpecInv *)

\* the slots of inv that hold a chemlight
Chemlights(inv) == {i \in Occupied(inv) : unwrap(inv.items[i]).name = "chemlight"}

\* the entities of w that a chemlight has dropped
Dropped(w) ==
    {e \in DOMAIN w : is_some(w[e].sprite) /\ unwrap(w[e].sprite).anim = "chemlight"}

\* C36: a chemlight in the inventory has 1 to 5 uses left.  do_use with it in
\* the active slot spawns exactly one entity, a light at the cached player
\* position, and takes one use off it; it stays in its slot while uses are
\* left and the slot is cleared with the last one.  No other call spawns an
\* entity or changes a chemlight.
C36_ChemlightFiveUses ==
    [][/\ \A i \in Chemlights(player_inventory) :
            LET c == unwrap(player_inventory.items[i]) IN
            /\ c.uses_left \in 1 .. ChemlightUses
            /\ IF last_call'.op = "do_use" /\ i = player_inventory.active_item_idx
               THEN /\ DOMAIN world' \ DOMAIN world = {next_id}
                    /\ Dropped(world') = Dropped(world) \cup {next_id}
                    /\ world'[next_id].pos = Some(player_pos)
                    /\ is_some(world'[next_id].light)
                    /\ player_inventory'.items[i] =
                          IF c.uses_left = 1 THEN None
                          ELSE Some([c EXCEPT !.uses_left = c.uses_left - 1])
               ELSE player_inventory'.items[i] = player_inventory.items[i]
       /\ (\/ last_call'.op # "do_use"
           \/ player_inventory.active_item_idx \notin Chemlights(player_inventory)) =>
             DOMAIN world' = DOMAIN world]_vars

\* the fifth use of a chemlight: five dropped lights, the last one spawned by
\* this call, and the slot cleared
C36_Witness ==
    /\ last_call.op = "do_use"
    /\ Cardinality(Dropped(world)) = ChemlightUses
    /\ next_id - 1 \in Dropped(world)
    /\ is_none(active_item(player_inventory))
    /\ \E k \in 1 .. Len(log) :
        log[k].what = "on_use" /\ log[k].a = player_inventory.active_item_idx

----------------------------------------------------------------------------
(* The lever and the particle emitter *)

Emitters(w) == {e \in DOMAIN w : is_some(w[e].emitter)}

Levers(w) == {e \in DOMAIN w : is_some(w[e].interact)}

\* in w, after n lever interactions, the emitter is active and the lever is
\* flipped exactly if n is odd, and the light radius of the emitter is 60
\* if it is active and 0 if not
LeverState(w, n) ==
    /\ \A e \in Emitters(w) :
        /\ unwrap(w[e].emitter).is_active <=> n % 2 = 1
        /\ unwrap(w[e].light).radius = IF unwrap(w[e].emitter).is_active THEN 60 ELSE 0
    /\ \A e \in Levers(w) : unwrap(w[e].sprite).flip_horizontal <=> n % 2 = 1

\* C37: after init and after any number of lever interactions and ticks the
\* emitter's light radius is 60 exactly when the emitter is active and 0
\* otherwise; every interaction toggles the emitter's is_active and the
\* lever's flip_horizontal, so that they are as init left them after an even
\* number of interactions; and while the emitter is inactive update_spawners
\* spawns nothing and leaves its countdown alone
C37_LeverEmitterConsistency ==
    [][/\ LeverState(world, hist.interactions)
       /\ LeverState(world', hist'.interactions)
       /\ pc = "update_spawners" =>
            \A e \in Emitters(world) :
                ~unwrap(world[e].emitter).is_active =>
                    /\ DOMAIN world' = DOMAIN world
                    /\ world'[e].emitter = world[e].emitter]_vars

\* two interactions have been made and the emitter and the lever are as init
\* left them
C37_Witness ==
    /\ hist.interactions = 2
    /\ Emitters(world) # {} /\ Levers(world) # {}
    /\ LeverState(world, 0)

----------------------------------------------------------------------------
(* Properties of render, checked under SpecRender *)

\* the entities of w whose sprite goes through the depth buffer: a position and
\* a sprite, neither Floor nor Prop
Buffered(w) ==
    {e \in DOMAIN w : /\ is_some(w[e].pos) /\ is_some(w[e].sprite)
                      /\ w[e].tags \cap {"Floor", "Prop"} = {}}

\* the places of the draw sequence c that came out of the depth buffer
Popped(c) == {i \in 1 .. Len(c) : is_some(c[i].z)}

\* round(pos.y) + z_offset of entity e of w
SpriteDepth(w, e) ==
    round_i32(unwrap(w[e].pos), "y")
        + (IF is_some(z_offset(unwrap(w[e].sprite)))
           THEN unwrap(z_offset(unwrap(w[e].sprite))) ELSE 0)

\* C38: the commands that come out of the depth buffer are drawn in
\* non-decreasing z order; when render has returned the depth buffer is empty,
\* every entity with a position and a sprite that is neither Floor nor Prop has
\* exactly one of these commands on the canvas, there is no other such
\* command, and the z of each is round(pos.y) + z_offset of its entity
C38_DepthSortedDrawing ==
    /\ \A i, j \in Popped(canvas) :
            i < j => unwrap(canvas[i].z) <= unwrap(canvas[j].z)
    /\ pc \in {"clear_lightmap", "lights"} =>
        /\ depth_buffer = <<>>
        /\ \A e \in Buffered(world) :
                Cardinality({i \in Popped(canvas) : canvas[i].e = e}) = 1
        /\ \A i \in Popped(canvas) :
                /\ canvas[i].e \in Buffered(world)
                /\ unwrap(canvas[i].z) = SpriteDepth(world, canvas[i].e)

\* render has returned after drawing four commands from the depth buffer, one
\* of them before a command that was pushed earlier, and two with the same z
C38_Witness ==
    /\ pc = "clear_lightmap"
    /\ order = "asc"
    /\ Cardinality(Popped(canvas)) = 4
    /\ \E i, j \in Popped(canvas) :
            /\ i < j /\ canvas[i].e > canvas[j].e
            /\ unwrap(canvas[i].z) < unwrap(canvas[j].z)
    /\ \E i, j \in Popped(canvas) :
            i # j /\ canvas[i].z = canvas[j].z

\* the screen position of the anchor of the sprite drawn by the draw call c:
\* where the call puts the sprite, less the offsets of the sprite
Anchor(w, c) ==
    [x |-> c.x - x_offset(unwrap(w[c.e].sprite)),
     y |-> c.y - y_offset(unwrap(w[c.e].sprite))]

\* C39: when the lights of a frame have been placed, a sprite drawn in the
\* frame and a light at the same world position are at the same screen
\* position, to the pixel the fraction of the position is rounded to
C39_WorldToScreenConsistency ==
    pc = "lights" =>
        \A i \in 1 .. Len(canvas), k \in 1 .. Len(light_rects) :
            world[canvas[i].e].pos = world[light_rects[k].e].pos =>
                /\ Abs(Anchor(world, canvas[i]).x - light_rects[k].at.x) <= 1
                /\ Abs(Anchor(world, canvas[i]).y - light_rects[k].at.y) <= 1

====
